---- MODULE Spec2Model ----
(***************************************************************************)
(* A model of the DiskImage back end: the tool-lifecycle manager (archive  *)
(* locator, extraction, readiness check, resolver), the recovery-capable   *)
(* process runner, the progress monitor thread, the direct block copy, the *)
(* archive post-processor and the imaging job orchestrator.                *)
(*                                                                         *)
(* File names and paths are sequences of one-character strings, so that    *)
(* lower(), endswith(), 'in' and suffix are computed, not assumed.         *)
(***************************************************************************)
EXTENDS Integers, Sequences, FiniteSets, TLC

VARIABLES
    \* ---- the file system the tool manager works on
    tools,          \* listing of TOOLS_DIR: a set of directory entries
    qemu_dir,       \* files present in QEMU_DIR (a set of names)
    sevenzip_local, \* tools/7zip/7z.exe exists
    sevenzip_system,\* a 7z executable is on the system PATH
    is_windows,     \* platform.system() == "Windows"
    system_qemu,    \* `qemu-img --version` runs from the PATH
    \* ---- ArchiveCandidateLocator (one call)
    loc_variant,    \* which locator ran: "none", "manager", "legacy"
    archive_path,   \* the entry it returned, or NoArchive
    \* ---- ToolResolver: QemuManager.initialize / init_qemu, per calling thread
    res_variant,    \* "manager" (backend/qemu.py) or "legacy" (qemu_utils.py)
    pc,             \* where each thread is in its call
    res_archive,    \* the archive each thread located
    res_result,     \* what each call returned or raised
    \* ---- ProcessRunner: QemuManager.run_command / run_qemu_win (one call)
    run_variant,    \* "manager" (run_command) or "legacy" (run_qemu_win)
    run_pc,         \* "idle", "first", "recover", "retry", "done"
    invocations,    \* how many times subprocess.run has started the process
    codes,          \* the outcome of each invocation, in order
    recovered,      \* the re-extraction: "none" (not run), "ok", "failed"
    run_result,     \* what the call returned or raised
    reextracted,    \* an extraction from the archive ran between two attempts
    run_captured,   \* stdout and stderr of the last invocation
    run_message,    \* the parts of the failure message the caller receives
    run_diag,       \* the directory listing and missing files that message holds
    \* ---- QemuManager._run_command_with_progress: main and monitor thread
    proc,           \* the qemu-img process: "none", "running", "exited"
    returncode,     \* its exit status once it has exited
    out_exists,     \* output_path.exists()
    out_size,       \* output_path.stat().st_size
    progress_stop,  \* the threading.Event
    main_pc,        \* "idle", "communicate", "join", "final", "returned"
    timed_out,      \* communicate() raised TimeoutExpired
    mon_pc,         \* "none", "loop", "stat", "emit", "except", "sleep", "exit"
    last_size,      \* local of monitor_progress
    current_size,   \* local of monitor_progress
    emitted,        \* the byte counts passed to progress_callback, in order
    late_emission,  \* progress_callback was invoked after the call returned
    prog_result,    \* what the call returned
    \* ---- the direct-copy loop of create_disk_image (disk_ops.py, backend.py)
    copy_pc,        \* "idle", "loop", "done"
    source,         \* the bytes of the device being imaged
    bs,             \* the buffer size
    src_pos,        \* position of disk_file
    dest,           \* the bytes of the file at raw_path
    dest_pos,       \* position of image_file
    bytes_read,     \* the counter of the loop
    copy_progress,  \* the values passed to progress_callback, in order
    \* ---- archiving an image: ArchiveManager.create_archive / archive_image
    arch_variant,   \* "manager" (archive_manager.py) or "legacy" (archive_utils.py)
    arch_type,      \* the requested archive type
    cleanup_original,\* the argument of create_archive
    same_path,      \* the image carries the archive's suffix: with_suffix gives its own path
    sevenz_gui,     \* C:\Program Files\7-Zip\7zG.exe exists
    arch_pc,        \* "idle", "create", "verify", "remove", "done"
    image_exists,   \* the image file exists
    archive_exists, \* the archive file exists
    archive_nonempty,\* and holds at least one byte
    created,        \* local `success` of create_archive
    deletion_handed,\* the deletion was handed to a subprocess (7zG -sdel)
    gui_pending,    \* that subprocess has not finished
    arch_result,    \* what the call returned
    \* ---- ImagingWorker.run_imaging_job (one call)
    job_pc,         \* "idle", "validate", "image", "archive", "done"
    job_in,         \* the arguments of the call
    job_failure,    \* the failure that occurred during the call, or "none"
    job_result,     \* what the call returned, or that it raised
    job_events,     \* tool extractions attempted and subprocesses spawned, in order
    job_outcomes,   \* how each qemu-img convert process of the call ended
    job_error,      \* the parts of the error text the returned message embeds
    job_reported,   \* the byte counts the call passed to progress_callback
    job_cmd,        \* the arguments create_image built for qemu-img
    \* ---- create_disk_image as a whole (disk_ops.py, backend.py)
    img_variant,    \* "disk_ops" (backend/disk_ops.py) or "backend" (backend.py)
    img_in,         \* the arguments of the call
    img_pc,         \* "idle", "physical", "open", "copy", "convert", "done"
    img_files,      \* which of output_path, raw_path and gz_path exist
    img_tmp_created,\* the call created the temporary raw file
    img_chunks,     \* the chunks the loop has copied
    img_raised,     \* the exception raised inside the call, or NoImgError
    img_result,     \* what the call returned, or that it raised
    img_output,     \* what output_path holds: "none", "raw", "image", "gz"
    img_convert,    \* the source and the destination given to the conversion
    \* ---- ImagingThread.run (gui/pyqt_app.py)
    thr_pc,         \* "idle", "job", "emit_finished", "emit_log", "except",
                    \* "except_log", "done"
    thr_total,      \* what _get_disk_size returns
    thr_job,        \* what run_imaging_job returned
    thr_progress,   \* the values emitted on the progress signal, in order
    thr_finished,   \* the values emitted on the finished signal, in order
    thr_logs,       \* how many times the log signal was emitted
    thr_raised,     \* where exceptions were raised during run(), in order
    inst_variant,   \* "sevenzip_utils", "sevenzip_manager", "thirdparty_downloader"
    inst_env,       \* what the machine holds when the installer is handled
    inst_pc,        \* "idle", "find", "archiver", "py7zr", "patoolib",
                    \* "powershell", "silent", "done"
    inst_local,     \* tools/7zip/7z.exe exists
    inst_flag,      \* index of the silent flags tried next
    inst_runs,      \* the processes started on the installer, in order
    inst_launched,  \* the archivers that were available at each launch of the installer
    inst_result,    \* what the caller gets
    zip_variant,    \* "manager" (_extract_zip), "legacy" (extract_qemu_deps)
    zip_members,    \* namelist() of the zip archive
    zip_pc,         \* "idle", "loop", "done"
    zip_selected,   \* per required file handled, the entry chosen (empty: none)
    zip_dir,        \* the install directory
    zip_raised,     \* the extraction raised
    cmd_variant,    \* the function that builds the qemu-img command
    cmd_in,         \* its arguments
    cmd_pc,         \* "idle", "built"
    cmd_line        \* the command it runs (empty: it runs none)

fsVars  == <<tools, qemu_dir, sevenzip_local, sevenzip_system, is_windows, system_qemu>>
locVars == <<loc_variant, archive_path>>
resVars == <<res_variant, pc, res_archive, res_result>>
runVars == <<run_variant, run_pc, invocations, codes, recovered, run_result,
             reextracted, run_captured, run_message, run_diag>>
\* what the runner records for the message it returns
runTrace == <<run_captured, run_message, run_diag>>
progVars == <<proc, returncode, out_exists, out_size, progress_stop, main_pc,
              timed_out, mon_pc, last_size, current_size, emitted, late_emission,
              prog_result>>
copyVars == <<copy_pc, source, bs, src_pos, dest, dest_pos, bytes_read, copy_progress>>
archVars == <<arch_variant, arch_type, cleanup_original, same_path, sevenz_gui, arch_pc,
              image_exists, archive_exists, archive_nonempty, created,
              deletion_handed, gui_pending, arch_result>>
jobVars == <<job_pc, job_in, job_failure, job_result, job_events, job_outcomes,
             job_error, job_reported, job_cmd>>
\* what the job records about its tool invocations
jobTrace == <<job_events, job_outcomes, job_error, job_reported, job_cmd>>
imgVars == <<img_variant, img_in, img_pc, img_files, img_tmp_created, img_chunks,
             img_raised, img_result, img_output, img_convert>>
thrVars == <<thr_pc, thr_total, thr_job, thr_progress, thr_finished, thr_logs,
             thr_raised>>
instVars == <<inst_variant, inst_env, inst_pc, inst_local, inst_flag, inst_runs,
              inst_launched, inst_result>>
zipVars == <<zip_variant, zip_members, zip_pc, zip_selected, zip_dir, zip_raised>>
cmdVars == <<cmd_variant, cmd_in, cmd_pc, cmd_line>>
vars    == <<fsVars, locVars, resVars, runVars, progVars, copyVars, archVars, jobVars,
             imgVars, thrVars, instVars,
               zipVars, cmdVars>>

\* what a component leaves alone: the variables of the other components
locOthers  == <<resVars, runVars, progVars, copyVars, archVars, jobVars,
               imgVars, thrVars, instVars,
               zipVars, cmdVars>>
resOthers  == <<locVars, runVars, progVars, copyVars, archVars, jobVars,
               imgVars, thrVars, instVars,
               zipVars, cmdVars>>
runOthers  == <<locVars, resVars, progVars, copyVars, archVars, jobVars,
               imgVars, thrVars, instVars,
               zipVars, cmdVars>>
progOthers == <<fsVars, locVars, resVars, runVars, copyVars, archVars, jobVars,
               imgVars, thrVars, instVars,
               zipVars, cmdVars>>
copyOthers == <<fsVars, locVars, resVars, runVars, progVars, archVars, jobVars,
               imgVars, thrVars, instVars,
               zipVars, cmdVars>>
archOthers == <<fsVars, locVars, resVars, runVars, progVars, copyVars, jobVars,
               imgVars, thrVars, instVars,
               zipVars, cmdVars>>
jobOthers  == <<fsVars, locVars, resVars, runVars, progVars, copyVars, archVars,
               imgVars, thrVars, instVars,
               zipVars, cmdVars>>
imgOthers  == <<locVars, resVars, runVars, progVars, copyVars, archVars, jobVars,
               thrVars, instVars,
               zipVars, cmdVars>>
thrOthers  == <<fsVars, locVars, resVars, runVars, progVars, copyVars, archVars,
               jobVars, imgVars, instVars,
               zipVars, cmdVars>>
instOthers == <<fsVars, locVars, resVars, runVars, progVars, copyVars, archVars,
               jobVars, imgVars, thrVars, zipVars, cmdVars>>
zipOthers  == <<fsVars, locVars, resVars, runVars, progVars, copyVars, archVars,
               jobVars, imgVars, thrVars, instVars, cmdVars>>
cmdOthers  == <<fsVars, locVars, resVars, runVars, progVars, copyVars, archVars,
               jobVars, imgVars, thrVars, instVars, zipVars>>
nonFsVars  == <<locVars, resVars, runVars, progVars, copyVars, archVars, jobVars,
               imgVars, thrVars, instVars,
               zipVars, cmdVars>>

----------------------------------------------------------------------------
(* Strings *)

UpperAlpha == <<"A","B","C","D","E","F","G","H","I","J","K","L","M",
                "N","O","P","Q","R","S","T","U","V","W","X","Y","Z">>
LowerAlpha == <<"a","b","c","d","e","f","g","h","i","j","k","l","m",
                "n","o","p","q","r","s","t","u","v","w","x","y","z">>

\* str.lower() on the upper-case letters
LowerTable == [c \in { UpperAlpha[i] : i \in 1..26 } |->
                  LowerAlpha[CHOOSE i \in 1..26 : UpperAlpha[i] = c]]

\* str.lower() on one character
LowerChar(c) == IF c \in DOMAIN LowerTable THEN LowerTable[c] ELSE c

\* str.lower()
Lower(s) == [i \in 1..Len(s) |-> LowerChar(s[i])]

\* str.endswith(suf)
EndsWith(s, suf) ==
    /\ Len(suf) <= Len(s)
    /\ SubSeq(s, Len(s) - Len(suf) + 1, Len(s)) = suf

\* sub in s
Contains(s, sub) ==
    \E i \in 1..(Len(s) - Len(sub) + 1) : SubSeq(s, i, i + Len(sub) - 1) = sub

\* str.rfind(c): the last index of c in s, 0 when absent (Python's -1)
RFind(s, c) ==
    IF \E i \in 1..Len(s) : s[i] = c
    THEN CHOOSE i \in 1..Len(s) : s[i] = c /\ \A j \in (i+1)..Len(s) : s[j] # c
    ELSE 0

\* the final path component (Path.name, os.path.basename)
BaseName(s) == SubSeq(s, RFind(s, "/") + 1, Len(s))

\* pathlib's Path.suffix: the text from the last dot of the final component,
\* empty when the dot is the first or the last character of that component
PathSuffix(s) ==
    LET name == BaseName(s)
        i    == RFind(name, ".")
    IN  IF 1 < i /\ i < Len(name) THEN SubSeq(name, i, Len(name)) ELSE << >>

\* os.path.splitext(s)[1]: the text from the last dot of the final component,
\* empty when that dot only follows leading dots
SplitExt(s) ==
    LET name == BaseName(s)
        i    == RFind(name, ".")
    IN  IF i > 0 /\ \E j \in 1..(i-1) : name[j] # "."
        THEN SubSeq(name, i, Len(name)) ELSE << >>

----------------------------------------------------------------------------
(* Names *)

S_qemu     == <<"q","e","m","u">>
EXT_ZIP    == <<".","z","i","p">>
EXT_7Z     == <<".","7","z">>
EXT_EXE    == <<".","e","x","e">>

F_qemu_img == <<"q","e","m","u","-","i","m","g",".","e","x","e">>
F_QEMU_IMG == <<"Q","E","M","U","-","I","M","G",".","E","X","E">>
F_iconv    == <<"l","i","b","i","c","o","n","v","-","2",".","d","l","l">>
F_bios     == <<"s","h","a","r","e","/","b","i","o","s",".","b","i","n">>
F_readme   == <<"r","e","a","d","m","e",".","t","x","t">>

T_qemu_zip  == <<"q","e","m","u",".","z","i","p">>
T_QEMU2_ZIP == <<"Q","E","M","U","2",".","Z","I","P">>
T_qemu_7z   == <<"q","e","m","u",".","7","z">>
T_qemu_exe  == <<"q","e","m","u",".","e","x","e">>
T_qemud_zip == <<"q","e","m","u","d",".","z","i","p">>
T_other_zip == <<"o","t","h","e","r",".","z","i","p">>
T_qemu      == <<"q","e","m","u">>
T_7z_exe    == <<"7","z","2","3",".","e","x","e">>
S_7z        == <<"7","z">>


----------------------------------------------------------------------------
(* The tools directory *)

\* An entry of TOOLS_DIR: its name, whether it is a regular file, its
\* modification time and, for an archive, the member paths it holds.
Entry(n, f, t, m) == [name |-> n, is_file |-> f, mtime |-> t, members |-> m]

\* "not found": the locator's None
NoArchive == Entry(<< >>, FALSE, 0, {})

\* src/backend/constants.py: ARCHIVE_PRIORITY
ARCHIVE_PRIORITY == (EXT_ZIP :> 0) @@ (EXT_7Z :> 1) @@ (EXT_EXE :> 2)

\* qemu_utils.find_qemu_archive: ext_priority.get(ext, 99)
ExtPriorityDefault == 99
ext_priority(ext) ==
    IF ext \in DOMAIN ARCHIVE_PRIORITY THEN ARCHIVE_PRIORITY[ext]
    ELSE ExtPriorityDefault

\* QemuManager._find_qemu_archive: the (priority, -mtime) candidates
ManagerCandidates(dir) ==
    { e \in dir :
        /\ e.is_file
        /\ Contains(Lower(e.name), S_qemu)
        /\ PathSuffix(Lower(e.name)) \in DOMAIN ARCHIVE_PRIORITY }

ManagerKey(e) == <<ARCHIVE_PRIORITY[PathSuffix(Lower(e.name))], -e.mtime>>

\* qemu_utils.find_qemu_archive: os.listdir entries, no is_file test
LegacyCandidates(dir) ==
    { e \in dir :
        /\ \/ EndsWith(Lower(e.name), EXT_ZIP)
           \/ EndsWith(Lower(e.name), EXT_7Z)
           \/ EndsWith(Lower(e.name), EXT_EXE)
        /\ Contains(Lower(e.name), S_qemu) }

LegacyKey(e) == <<ext_priority(SplitExt(Lower(e.name))), -e.mtime>>

\* tuple comparison of two (priority, -mtime) keys
KeyLeq(a, b) == a[1] < b[1] \/ (a[1] = b[1] /\ a[2] <= b[2])

\* candidates.sort(); candidates[0]: the entries a sort can put first.  Equal
\* keys are ordered by path (manager) or by listing order (legacy); the model
\* leaves that order open.
ManagerBest(dir) ==
    { e \in ManagerCandidates(dir) :
        \A o \in ManagerCandidates(dir) : KeyLeq(ManagerKey(e), ManagerKey(o)) }

LegacyBest(dir) ==
    { e \in LegacyCandidates(dir) :
        \A o \in LegacyCandidates(dir) : KeyLeq(LegacyKey(e), LegacyKey(o)) }


----------------------------------------------------------------------------
(* The install directory.  Extraction runs on Windows only, so names are   *)
(* compared without regard to case, as NTFS does; a directory exists when  *)
(* it holds a file.                                                        *)

\* str.startswith(pre)
StartsWith(s, pre) == Len(pre) <= Len(s) /\ SubSeq(s, 1, Len(pre)) = pre

\* Path.exists() / os.path.exists() of dir/f
Exists(dir, f) == \E g \in dir : Lower(g) = Lower(f)

\* the directory part of a relative path (empty: the install directory)
ParentOf(f) == IF RFind(f, "/") = 0 THEN << >> ELSE SubSeq(f, 1, RFind(f, "/") - 1)

\* the directory d exists below the install directory
DirExists(dir, d) ==
    d = << >> \/ \E g \in dir : StartsWith(Lower(g), Lower(d) \o <<"/">>)

\* a file is written at dir/f (an existing file of that name is overwritten
\* and keeps its spelling)
PutFile(dir, f) == IF Exists(dir, f) THEN dir ELSE dir \cup {f}

\* the file dir/f is removed
DelFile(dir, f) == { g \in dir : Lower(g) # Lower(f) }

\* str.count('/')
CountSlash(s) == Cardinality({ i \in 1..Len(s) : s[i] = "/" })

\* src/backend/constants.py: REQUIRED_QEMU_FILES (three of its entries, in
\* the order of the list: two files of the root and one below share/)
REQUIRED_QEMU_FILES == <<F_iconv, F_qemu_img, F_bios>>

\* src/backend/qemu_utils.py: REQUIRED_QEMU_FILES (two of its seven entries)
LEGACY_REQUIRED_QEMU_FILES == <<F_qemu_img, F_iconv>>

Range(seq) == { seq[i] : i \in 1..Len(seq) }

\* [f for f in REQUIRED_QEMU_FILES if not (qemu_dir / f).exists()]
MissingFiles(req, dir) == { f \in Range(req) : ~Exists(dir, f) }

\* a readiness check that never finds the tool ready
NeverReady(req, dir) == FALSE

\* a readiness check that reuses the success of an earlier call
ReadyFromEarlierCall(req, dir) ==
    \/ \E t \in DOMAIN res_result : res_result[t].status = "ok"
    \/ \A i \in 1..Len(req) : Exists(dir, req[i])

\* QemuManager.check_files_present / qemu_utils.check_qemu_files
CheckFilesPresent(req, dir) == \A i \in 1..Len(req) : Exists(dir, req[i])

\* the archive members a required file matches
\* [f for f in all_files if f.lower().endswith(required_file.lower())]
Matches(members, required_file) ==
    { f \in members : EndsWith(Lower(f), Lower(required_file)) }

\* min(matches, key=lambda x: x.count('/')) / sorted(...)[0]
BestMatch(matches) ==
    CHOOSE f \in matches : \A g \in matches : CountSlash(f) <= CountSlash(g)

\* QemuManager._extract_zip, from the i-th required file on: the directory it
\* leaves and whether it raised (Path.replace() into a missing directory)
RECURSIVE ExtractZipFrom(_, _, _)
ExtractZipFrom(dir, members, i) ==
    IF i > Len(REQUIRED_QEMU_FILES) THEN [dir |-> dir, raised |-> FALSE]
    ELSE LET required_file == REQUIRED_QEMU_FILES[i]
             matches == Matches(members, required_file)
         IN  IF matches = {} THEN ExtractZipFrom(dir, members, i + 1)
             ELSE LET best_match == BestMatch(matches)
                      extracted  == PutFile(dir, best_match)
                  IN  IF Lower(best_match) = Lower(required_file)
                      THEN ExtractZipFrom(extracted, members, i + 1)
                      ELSE IF ~DirExists(extracted, ParentOf(required_file))
                      THEN [dir |-> extracted, raised |-> TRUE]
                      ELSE ExtractZipFrom(
                               DelFile(DelFile(extracted, best_match), required_file)
                                   \cup {required_file},
                               members, i + 1)

\* qemu_utils._cleanup_qemu_dir: every entry of os.listdir(dest_dir) whose
\* lower-cased name is not a required name is removed; os.remove fails on a
\* subdirectory, so the files below one stay
CleanupQemuDir(dir) ==
    { g \in dir :
        \/ RFind(g, "/") # 0
        \/ Lower(g) \in { Lower(f) : f \in Range(LEGACY_REQUIRED_QEMU_FILES) } }

\* qemu_utils.extract_qemu_deps, from the i-th required file on (the final
\* _cleanup_qemu_dir is applied by the caller of this operator)
RECURSIVE ExtractQemuDepsFrom(_, _, _)
ExtractQemuDepsFrom(dir, members, i) ==
    IF i > Len(LEGACY_REQUIRED_QEMU_FILES) THEN dir
    ELSE LET req     == LEGACY_REQUIRED_QEMU_FILES[i]
             matches == Matches(members, req)
         IN  IF matches = {} THEN ExtractQemuDepsFrom(dir, members, i + 1)
             ELSE LET member    == BestMatch(matches)
                      extracted == PutFile(dir, member)
                  IN  IF member = req
                      THEN ExtractQemuDepsFrom(extracted, members, i + 1)
                      ELSE ExtractQemuDepsFrom(
                               DelFile(DelFile(extracted, member), req) \cup {req},
                               members, i + 1)

\* `7z e <archive> <filename> -o<dest> -y` on a readable archive: the members
\* of that path are written to dest without their directories
SevenZipE(dir, members, filename) ==
    LET hit == { f \in members : Lower(f) = Lower(filename) }
    IN  IF hit = {} THEN dir ELSE PutFile(dir, BaseName(CHOOSE f \in hit : TRUE))

\* the loop `for filename in files` of SevenZipManager.extract_files and of
\* sevenzip_utils.extract_with_7zip, every call returning 0
RECURSIVE SevenZipEAll(_, _, _, _)
SevenZipEAll(dir, members, files, i) ==
    IF i > Len(files) THEN dir
    ELSE SevenZipEAll(SevenZipE(dir, members, files[i]), members, files, i + 1)

----------------------------------------------------------------------------
(* ArchiveCandidateLocator: one call on an arbitrary tools directory *)

P_q == <<"q","/">>

\* member listings of the archives of the model
FullNested  == { P_q \o F_qemu_img, P_q \o F_iconv, P_q \o F_bios, P_q \o F_readme }
FullFlat    == { F_qemu_img, F_iconv, F_bios, F_readme }
FlatUpper   == { F_QEMU_IMG, F_iconv, F_bios }
OnlyUpper   == { F_QEMU_IMG }

\* the entries TOOLS_DIR may hold
LocUniverse ==
    { Entry(T_qemu_zip,  TRUE,  1,  FullNested),
      Entry(T_QEMU2_ZIP, TRUE,  2,  FlatUpper),
      Entry(T_qemu_7z,   TRUE,  10, FullFlat),
      Entry(T_qemu_exe,  TRUE,  5,  OnlyUpper),
      Entry(T_qemud_zip, FALSE, 3,  {}),
      Entry(T_other_zip, TRUE,  7,  FullFlat),
      Entry(T_qemu,      FALSE, 4,  {}) }

Threads == {"T1", "T2"}

\* a call's outcome: status "none" (no call finished), "ok" or "error"; for an
\* error, the exception class, which message it carries and the files the
\* message lists
Res(status, error, text, missing) ==
    [status |-> status, error |-> error, text |-> text, missing |-> missing]

NoResult == Res("none", "", "", {})
Ok       == Res("ok", "", "", {})

\* no resolver call is under way
IdleResolver ==
    /\ res_variant = "manager"
    /\ pc = [t \in Threads |-> "idle"]
    /\ res_archive = [t \in Threads |-> NoArchive]
    /\ res_result = [t \in Threads |-> NoResult]

\* no locator call is under way
IdleLocator ==
    /\ loc_variant = "none"
    /\ archive_path = NoArchive

\* what a runner call returned or raised: status "returned" or "raised", the
\* exit code it carries, and which message
RunRes(status, code, text) == [status |-> status, code |-> code, text |-> text]

NoRunResult == RunRes("none", <<0, 0>>, "")

\* no runner call is under way
\* what subprocess.run captured of an invocation
NoCaptured == [stdout |-> "", stderr |-> ""]

\* the message holds no directory listing
NoDiag == [listed |-> FALSE, files |-> {}, missing |-> {}]

IdleRunner ==
    /\ run_variant = "manager"
    /\ run_pc = "idle"
    /\ invocations = 0
    /\ codes = << >>
    /\ recovered = "none"
    /\ run_result = NoRunResult
    /\ reextracted = FALSE
    /\ run_captured = NoCaptured
    /\ run_message = << >>
    /\ run_diag = NoDiag

\* no call with progress monitoring is under way
IdleProgress ==
    /\ proc = "none"
    /\ returncode = 0
    /\ out_exists = FALSE
    /\ out_size = 0
    /\ progress_stop = FALSE
    /\ main_pc = "idle"
    /\ timed_out = FALSE
    /\ mon_pc = "none"
    /\ last_size = 0
    /\ current_size = 0
    /\ emitted = << >>
    /\ late_emission = FALSE
    /\ prog_result = "none"

\* no direct copy is under way
IdleCopy ==
    /\ copy_pc = "idle"
    /\ source = << >>
    /\ bs = 1
    /\ src_pos = 0
    /\ dest = << >>
    /\ dest_pos = 0
    /\ bytes_read = 0
    /\ copy_progress = << >>

\* no archiving is under way
IdleArchive ==
    /\ arch_variant = "manager"
    /\ arch_type = "zip"
    /\ cleanup_original = FALSE
    /\ same_path = FALSE
    /\ sevenz_gui = FALSE
    /\ arch_pc = "idle"
    /\ image_exists = FALSE
    /\ archive_exists = FALSE
    /\ archive_nonempty = FALSE
    /\ created = FALSE
    /\ deletion_handed = FALSE
    /\ gui_pending = FALSE
    /\ arch_result = "none"

\* what run_imaging_job returned: status "returned" with the first two
\* elements of the tuple, or "raised" with the exception class
JobRes(status, success, message) ==
    [status |-> status, success |-> success, message |-> message]

NoJobResult == JobRes("none", FALSE, "")

NoJobInput ==
    [disk_info |-> "valid", source_path |-> "clean", output_path |-> "valid",
     image_format |-> "img", use_sparse |-> TRUE, use_compress |-> FALSE,
     archive_after |-> FALSE, archive_type |-> "None", buffer_size |-> "None",
     progress_callback |-> FALSE]

\* no imaging job is under way
IdleJob ==
    /\ job_pc = "idle"
    /\ job_in = NoJobInput
    /\ job_failure = "none"
    /\ job_result = NoJobResult
    /\ job_events = << >>
    /\ job_outcomes = << >>
    /\ job_error = << >>
    /\ job_reported = << >>
    /\ job_cmd = << >>

\* an exception: its class, the path it is about, and where it was raised
ImgError(type, path, at) == [type |-> type, path |-> path, at |-> at]

NoImgError == ImgError("none", << >>, "none")

\* what create_disk_image returns, or that it raised
ImgRes(status, success, message) ==
    [status |-> status, success |-> success, message |-> message]

NoConvert == [src |-> << >>, dst |-> << >>]

NoImgResult == ImgRes("none", FALSE, << >>)

NoImgInput == [device_path |-> << >>, image_format |-> "img", compress |-> FALSE]

\* no create_disk_image call is under way
IdleImage ==
    /\ img_variant = "none"
    /\ img_in = NoImgInput
    /\ img_pc = "idle"
    /\ img_files = {}
    /\ img_tmp_created = FALSE
    /\ img_chunks = 0
    /\ img_raised = NoImgError
    /\ img_result = NoImgResult
    /\ img_output = "none"
    /\ img_convert = NoConvert

NoThreadJob == [success |-> FALSE, message |-> "none"]

\* no ImagingThread is running
IdleThread ==
    /\ thr_pc = "idle"
    /\ thr_total = 0
    /\ thr_job = NoThreadJob
    /\ thr_progress = << >>
    /\ thr_finished = << >>
    /\ thr_logs = 0
    /\ thr_raised = << >>

NoInstEnv == [local |-> FALSE, system |-> FALSE, installer |-> FALSE,
              py7zr |-> FALSE, patool |-> FALSE]

\* no installer is being handled
IdleInstaller ==
    /\ inst_variant = "none"
    /\ inst_env = NoInstEnv
    /\ inst_pc = "idle"
    /\ inst_local = FALSE
    /\ inst_flag = 1
    /\ inst_runs = << >>
    /\ inst_launched = << >>
    /\ inst_result = "none"

\* no zip archive is being extracted
IdleZip ==
    /\ zip_variant = "none"
    /\ zip_members = {}
    /\ zip_pc = "idle"
    /\ zip_selected = << >>
    /\ zip_dir = {}
    /\ zip_raised = FALSE

NoCmdInput == [image_format |-> "img", compress |-> FALSE, sparse |-> FALSE,
               win |-> FALSE]

\* no command is being built
IdleCommand ==
    /\ cmd_variant = "none"
    /\ cmd_in = NoCmdInput
    /\ cmd_pc = "idle"
    /\ cmd_line = << >>

\* the tool directories are not in use
IdleFs ==
    /\ tools = {}
    /\ qemu_dir = {}
    /\ sevenzip_local = FALSE
    /\ sevenzip_system = FALSE
    /\ is_windows = TRUE
    /\ system_qemu = FALSE

InitLocator ==
    /\ tools \in SUBSET LocUniverse
    /\ qemu_dir = {}
    /\ sevenzip_local = FALSE
    /\ sevenzip_system = FALSE
    /\ is_windows = TRUE
    /\ system_qemu = FALSE
    /\ loc_variant = "none"
    /\ archive_path = NoArchive
    /\ IdleResolver
    /\ IdleRunner
    /\ IdleProgress
    /\ IdleCopy
    /\ IdleArchive
    /\ IdleJob
    /\ IdleImage
    /\ IdleThread
    /\ IdleInstaller
    /\ IdleZip
    /\ IdleCommand

\* QemuManager._find_qemu_archive
FindQemuArchiveManager ==
    /\ loc_variant = "none"
    /\ loc_variant' = "manager"
    /\ IF ManagerCandidates(tools) = {}
       THEN archive_path' = NoArchive
       ELSE archive_path' \in ManagerBest(tools)
    /\ UNCHANGED <<fsVars, locOthers>>

\* qemu_utils.find_qemu_archive
FindQemuArchiveLegacy ==
    /\ loc_variant = "none"
    /\ loc_variant' = "legacy"
    /\ IF LegacyCandidates(tools) = {}
       THEN archive_path' = NoArchive
       ELSE archive_path' \in LegacyBest(tools)
    /\ UNCHANGED <<fsVars, locOthers>>

\* the caller drops the result; the locator can be called again
LocatorReturn ==
    /\ loc_variant # "none"
    /\ loc_variant' = "none"
    /\ archive_path' = NoArchive
    /\ UNCHANGED <<fsVars, locOthers>>

NextLocator == FindQemuArchiveManager \/ FindQemuArchiveLegacy \/ LocatorReturn

SpecLocator == InitLocator /\ [][NextLocator]_vars

----------------------------------------------------------------------------
(* Claims on the locator *)

\* the regular files of the tools directory whose name passes the tool filter
\* and carries the extension ext
RegularOfKind(dir, ext) ==
    { e \in dir : e.is_file /\ Contains(Lower(e.name), S_qemu)
                            /\ EndsWith(Lower(e.name), ext) }

\* e is a most recently modified file of kind ext
NewestOfKind(dir, e, ext) ==
    /\ e \in RegularOfKind(dir, ext)
    /\ \A o \in RegularOfKind(dir, ext) : o.mtime <= e.mtime

\* what the ranking of the claim selects from dir
RankedChoice(dir, e) ==
    IF RegularOfKind(dir, EXT_ZIP) # {} THEN NewestOfKind(dir, e, EXT_ZIP)
    ELSE IF RegularOfKind(dir, EXT_7Z) # {} THEN NewestOfKind(dir, e, EXT_7Z)
    ELSE IF RegularOfKind(dir, EXT_EXE) # {} THEN NewestOfKind(dir, e, EXT_EXE)
    ELSE TRUE

\* C9: among the regular files whose name matches the filter, the locator
\* returns a .zip if one exists, otherwise a .7z, otherwise a .exe, whatever
\* the modification times, and the most recently modified file of that kind.
C9_LocatorRanking ==
    loc_variant # "none" => RankedChoice(tools, archive_path)

\* the same ranking, for QemuManager._find_qemu_archive alone
ManagerLocatorRanking ==
    loc_variant = "manager" => RankedChoice(tools, archive_path)

----------------------------------------------------------------------------
(* ToolResolver: QemuManager.initialize (backend/qemu.py) and init_qemu     *)
(* (backend/qemu_utils.py), called by the threads of Threads.  What the    *)
(* external archiver and the zip reader do with an unreadable archive is   *)
(* the environment's choice.                                               *)

\* sevenzip_utils.find_7z_installer: some entry of tools/ is named 7z*.exe
Find7zInstaller(dir) ==
    \E e \in dir : StartsWith(Lower(e.name), S_7z) /\ EndsWith(Lower(e.name), EXT_EXE)

\* sevenzip_utils.find_7z_exe: the executable it returns and whether
\* tools/7zip/7z.exe exists afterwards; inst_ok: extract_7z_from_installer
\* produced 7z.exe
Find7zExe(local, system, installer, inst_ok) ==
    IF local THEN [exe |-> "local", local |-> TRUE]
    ELSE IF installer
         THEN IF inst_ok THEN [exe |-> "local", local |-> TRUE]
                         ELSE [exe |-> "none", local |-> FALSE]
    ELSE IF system THEN [exe |-> "system", local |-> FALSE]
    ELSE [exe |-> "none", local |-> FALSE]

\* QemuManager._extract_qemu, lines 238-244: the extraction proper.  Result Ok
\* stands for "no exception": the caller goes on to verify.
ManagerExtract(dir, archive, local, system, readable) ==
    IF PathSuffix(Lower(archive.name)) = EXT_ZIP
    THEN IF ~readable
         THEN [dir |-> dir, result |-> Res("error", "QemuExtractionError", "zip_failed", {})]
         ELSE LET r == ExtractZipFrom(dir, archive.members, 1)
              IN  [dir |-> r.dir,
                   result |-> IF r.raised
                              THEN Res("error", "QemuExtractionError", "zip_failed", {})
                              ELSE Ok]
    ELSE IF PathSuffix(Lower(archive.name)) \in {EXT_7Z, EXT_EXE}
    THEN IF ~(local \/ system)
         THEN [dir |-> dir,
               result |-> Res("error", "QemuExtractionError", "sevenzip_not_found", {})]
         ELSE IF ~readable
         THEN [dir |-> dir,
               result |-> Res("error", "QemuExtractionError", "sevenzip_failed", {})]
         ELSE [dir |-> SevenZipEAll(dir, archive.members, REQUIRED_QEMU_FILES, 1),
               result |-> Ok]
    ELSE [dir |-> dir, result |-> Res("error", "QemuExtractionError", "unsupported", {})]

\* the message extract_qemu raises for a failed 7-Zip extraction: for an .exe
\* candidate every RuntimeError is replaced by the fixed installer message
LegacySevenZipError(ext, text, missing) ==
    IF ext = EXT_EXE THEN Res("error", "RuntimeError", "exe_not_sfx", {})
    ELSE Res("error", "RuntimeError", text, missing)

\* qemu_utils.extract_qemu, lines 148-167, up to the extraction and the purge:
\* the directory, tools/7zip/7z.exe and the exception if one was raised
LegacyExtract(dir, archive, local, system, installer, ok1, ok2, readable) ==
    LET ext == SplitExt(Lower(archive.name))
    IN  IF ext = EXT_ZIP
        THEN IF ~archive.is_file \/ ~readable
             THEN [dir |-> dir, local |-> local,
                   result |-> Res("error", "BadZipFile", "zip_failed", {})]
             ELSE [dir |-> CleanupQemuDir(ExtractQemuDepsFrom(dir, archive.members, 1)),
                   local |-> local, result |-> Ok]
        ELSE IF ext \in {EXT_7Z, EXT_EXE}
        THEN LET found == Find7zExe(local, system, installer, ok1)
             IN  IF found.exe = "none"
                 THEN \* get_7zip_status_message() looks for 7z.exe once more
                      [dir |-> dir,
                       local |-> Find7zExe(found.local, system, installer, ok2).local,
                       result |-> LegacySevenZipError(ext, "sevenzip_not_found", {})]
                 ELSE IF ~archive.is_file \/ ~readable
                 THEN [dir |-> dir, local |-> found.local,
                       result |-> LegacySevenZipError(ext, "sevenzip_failed", {})]
                 ELSE \* cleanup_after: tools/7zip/7z.exe is deleted again
                      [dir |-> CleanupQemuDir(
                                  SevenZipEAll(dir, archive.members,
                                               LEGACY_REQUIRED_QEMU_FILES, 1)),
                       local |-> FALSE, result |-> Ok]
        ELSE [dir |-> dir, local |-> local,
              result |-> Res("error", "RuntimeError", "unsupported", {})]

\* a verification that accepts whatever the extraction left
ManagerVerifyAcceptsAll(dir) == Ok

\* QemuManager._extract_qemu, lines 246-250: the verification
ManagerVerify(dir) ==
    IF CheckFilesPresent(REQUIRED_QEMU_FILES, dir) THEN Ok
    ELSE Res("error", "QemuExtractionError", "incomplete",
             MissingFiles(REQUIRED_QEMU_FILES, dir))

\* qemu_utils: _finalize_extraction and the raise that follows it, in
\* extract_qemu (zip) and extract_with_7z_and_finalize (7z, exe)
LegacyVerify(dir, archive) ==
    LET missing_after == MissingFiles(LEGACY_REQUIRED_QEMU_FILES, dir)
        ext == SplitExt(Lower(archive.name))
    IN  IF missing_after = {} THEN Ok
        ELSE IF ext = EXT_ZIP THEN Res("error", "RuntimeError", "incomplete", missing_after)
        ELSE LegacySevenZipError(ext, "incomplete", missing_after)

Required(variant) ==
    IF variant = "manager" THEN REQUIRED_QEMU_FILES ELSE LEGACY_REQUIRED_QEMU_FILES

\* a thread calls QemuManager.initialize() / init_qemu()
ResCall(t) ==
    /\ pc[t] = "idle"
    /\ pc' = [pc EXCEPT ![t] = "check"]
    /\ UNCHANGED <<fsVars, resOthers, res_variant, res_archive, res_result>>

\* the thread finishes its call with result r
Finish(t, r) ==
    /\ pc' = [pc EXCEPT ![t] = "done"]
    /\ res_result' = [res_result EXCEPT ![t] = r]

\* the thread has located archive a and starts extracting from it
StartExtract(t, a) ==
    /\ pc' = [pc EXCEPT ![t] = "extracting"]
    /\ res_archive' = [res_archive EXCEPT ![t] = a]
    /\ UNCHANGED res_result

\* QemuManager.initialize, lines 38-49, and _extract_qemu up to line 236
ManagerCheck(t) ==
    /\ pc[t] = "check" /\ res_variant = "manager"
    /\ IF ~is_windows
       THEN /\ Finish(t, IF system_qemu THEN Ok
                         ELSE Res("error", "QemuNotFoundError", "no_system_qemu", {}))
            /\ UNCHANGED res_archive
       ELSE IF CheckFilesPresent(REQUIRED_QEMU_FILES, qemu_dir)
       THEN Finish(t, Ok) /\ UNCHANGED res_archive
       ELSE IF ManagerCandidates(tools) = {}
       THEN /\ Finish(t, Res("error", "QemuExtractionError", "no_archive", {}))
            /\ UNCHANGED res_archive
       ELSE \E a \in ManagerBest(tools) : StartExtract(t, a)
    /\ UNCHANGED <<fsVars, resOthers, res_variant>>

\* qemu_utils.init_qemu, lines 178-180, and extract_qemu up to line 148
LegacyCheck(t) ==
    /\ pc[t] = "check" /\ res_variant = "legacy"
    /\ IF CheckFilesPresent(LEGACY_REQUIRED_QEMU_FILES, qemu_dir)
       THEN Finish(t, Ok) /\ UNCHANGED res_archive
       ELSE IF LegacyCandidates(tools) = {}
       THEN /\ Finish(t, Res("error", "FileNotFoundError", "no_archive", {}))
            /\ UNCHANGED res_archive
       ELSE \E a \in LegacyBest(tools) : StartExtract(t, a)
    /\ UNCHANGED <<fsVars, resOthers, res_variant>>

\* the thread's extraction has run: exception, or on to the verification
Extracted(t, r) ==
    /\ IF r.status = "ok"
       THEN pc' = [pc EXCEPT ![t] = "verify"] /\ UNCHANGED res_result
       ELSE Finish(t, r)
    /\ UNCHANGED <<res_archive, res_variant>>

\* QemuManager._extract_zip / _extract_with_7zip
ManagerExtractStep(t) ==
    /\ pc[t] = "extracting" /\ res_variant = "manager"
    /\ \E readable \in BOOLEAN :
         LET x == ManagerExtract(qemu_dir, res_archive[t], sevenzip_local,
                                 sevenzip_system, readable)
         IN  /\ qemu_dir' = x.dir
             /\ Extracted(t, x.result)
    /\ UNCHANGED <<tools, sevenzip_local, sevenzip_system, is_windows, system_qemu, resOthers>>

\* qemu_utils.extract_qemu_deps / extract_with_7zip and _cleanup_qemu_dir
LegacyExtractStep(t) ==
    /\ pc[t] = "extracting" /\ res_variant = "legacy"
    /\ \E readable, ok1, ok2 \in BOOLEAN :
         LET x == LegacyExtract(qemu_dir, res_archive[t], sevenzip_local,
                                sevenzip_system, Find7zInstaller(tools),
                                ok1, ok2, readable)
         IN  /\ qemu_dir' = x.dir
             /\ sevenzip_local' = x.local
             /\ Extracted(t, x.result)
    /\ UNCHANGED <<tools, sevenzip_system, is_windows, system_qemu, resOthers>>

\* the check that ends _extract_qemu / extract_qemu
VerifyStep(t) ==
    /\ pc[t] = "verify"
    /\ Finish(t, IF res_variant = "manager" THEN ManagerVerify(qemu_dir)
                 ELSE LegacyVerify(qemu_dir, res_archive[t]))
    /\ UNCHANGED <<fsVars, resOthers, res_variant, res_archive>>

\* the caller has taken the result; the thread may call again
ResReturn(t) ==
    /\ pc[t] = "done"
    /\ pc' = [pc EXCEPT ![t] = "idle"]
    /\ res_result' = [res_result EXCEPT ![t] = NoResult]
    /\ res_archive' = [res_archive EXCEPT ![t] = NoArchive]
    /\ UNCHANGED <<fsVars, resOthers, res_variant>>

\* a required file of the install directory disappears out-of-band
\* (antivirus quarantine, manual cleanup)
OutOfBandDelete ==
    /\ \E f \in qemu_dir :
         /\ \E r \in Range(REQUIRED_QEMU_FILES) \cup Range(LEGACY_REQUIRED_QEMU_FILES) :
               Lower(r) = Lower(f)
         /\ qemu_dir' = qemu_dir \ {f}
    /\ UNCHANGED <<tools, sevenzip_local, sevenzip_system, is_windows, system_qemu,
                   nonFsVars>>

\* the tools directories and install directories the resolver starts from
ResToolsUniverse == LocUniverse \cup { Entry(T_7z_exe, TRUE, 6, {}) }

ResToolsScenarios ==
    { {}, 
      { e \in ResToolsUniverse : e.name = T_qemu_zip },
      { e \in ResToolsUniverse : e.name = T_QEMU2_ZIP },
      { e \in ResToolsUniverse : e.name = T_qemu_7z },
      { e \in ResToolsUniverse : e.name = T_qemu_exe },
      { e \in ResToolsUniverse : e.name \in {T_qemu_exe, T_7z_exe} },
      { e \in ResToolsUniverse : e.name \in {T_qemu_7z, T_qemud_zip} },
      ResToolsUniverse }

ResDirScenarios ==
    { {}, {F_readme}, {F_bios, F_readme}, {F_qemu_img}, {F_QEMU_IMG, F_iconv},
      {F_qemu_img, F_iconv, F_bios} }

\* off Windows the resolver only probes the system qemu-img, whatever the
\* directories hold
InitResolver ==
    /\ res_variant \in {"manager", "legacy"}
    /\ is_windows \in (IF res_variant = "manager" THEN BOOLEAN ELSE {TRUE})
    /\ system_qemu \in (IF is_windows THEN {FALSE} ELSE BOOLEAN)
    /\ tools \in (IF is_windows THEN ResToolsScenarios ELSE {{}})
    /\ qemu_dir \in (IF is_windows THEN ResDirScenarios ELSE {{}})
    /\ sevenzip_local \in (IF is_windows THEN BOOLEAN ELSE {FALSE})
    /\ sevenzip_system \in (IF is_windows THEN BOOLEAN ELSE {FALSE})
    /\ pc = [t \in Threads |-> "idle"]
    /\ res_archive = [t \in Threads |-> NoArchive]
    /\ res_result = [t \in Threads |-> NoResult]
    /\ IdleLocator
    /\ IdleRunner
    /\ IdleProgress
    /\ IdleCopy
    /\ IdleArchive
    /\ IdleJob
    /\ IdleImage
    /\ IdleThread
    /\ IdleInstaller
    /\ IdleZip
    /\ IdleCommand

NextResolver ==
    \/ \E t \in Threads : ResCall(t)
    \/ \E t \in Threads : ManagerCheck(t)
    \/ \E t \in Threads : LegacyCheck(t)
    \/ \E t \in Threads : ManagerExtractStep(t)
    \/ \E t \in Threads : LegacyExtractStep(t)
    \/ \E t \in Threads : VerifyStep(t)
    \/ \E t \in Threads : ResReturn(t)
    \/ OutOfBandDelete

SpecResolver == InitResolver /\ [][NextResolver]_vars

\* thread t's extract_qemu call fails while extracting from a candidate with
\* extension ext
LegacyExtractionFailed(t, ext) ==
    /\ pc[t] = "extracting" /\ res_variant = "legacy"
    /\ SplitExt(Lower(res_archive[t].name)) = ext
    /\ pc'[t] = "done"
    /\ res_result'[t].status = "error"

\* find_7z_exe finds no archiver: none in tools/7zip, none on PATH, and no
\* installer to take one from
NoArchiver == ~sevenzip_local /\ ~sevenzip_system /\ ~Find7zInstaller(tools)

\* find_7z_exe finds an archiver, which is then run
ArchiverRuns == sevenzip_local \/ (sevenzip_system /\ ~Find7zInstaller(tools))

\* the error tells the two causes apart: the message that reports the missing
\* archiver is given when, and only when, there is none
TellsCausesApart(t) ==
    /\ NoArchiver => res_result'[t].text = "sevenzip_not_found"
    /\ ArchiverRuns => res_result'[t].text # "sevenzip_not_found"

\* C36: when the extraction from an installer (.exe) candidate fails, the
\* error distinguishes "the archiver is missing" from "the archiver ran but
\* the file is not a self-extracting archive": the two causes never give the
\* same message.
C36_ExeErrorTellsCausesApart ==
    [][\A t \in Threads : LegacyExtractionFailed(t, EXT_EXE) => TellsCausesApart(t)]_vars

\* what the code does ensure: the causes are told apart for a .7z candidate
SevenZipErrorTellsCausesApart ==
    [][\A t \in Threads : LegacyExtractionFailed(t, EXT_7Z) => TellsCausesApart(t)]_vars


----------------------------------------------------------------------------
(* Claims on the resolver *)

\* thread t's call ends in this step
Finishing(t) == pc[t] # "done" /\ pc'[t] = "done"

\* the bundled-tool path: the resolver works on the install directory
BundledPath == res_variant = "legacy" \/ is_windows

\* the names of a set of files, as the file system compares them
LowerNames(files) == { Lower(f) : f \in files }

\* the call reports the required files that the verification found missing
ListsMissing(t) ==
    /\ res_result'[t].status = "error"
    /\ res_result'[t].missing = MissingFiles(Required(res_variant), qemu_dir')

\* the candidate is an installer handled by init_qemu, whose errors are all
\* replaced by the fixed "standard installer" message
LegacyInstaller(t) ==
    res_variant = "legacy" /\ SplitExt(Lower(res_archive[t].name)) = EXT_EXE

C5_ExtractionMutualExclusion ==
    \A t1, t2 \in Threads :
        (pc[t1] = "extracting" /\ pc[t2] = "extracting") => t1 = t2

\* C8: after an extraction through the external archiver (.7z or .exe
\* candidate) has completed successfully, the files of the install directory
\* are exactly the required files.
C8_PurgeAfterArchiver ==
    [][\A t \in Threads :
         ( /\ Finishing(t)
           /\ res_result'[t].status = "ok"
           /\ PathSuffix(Lower(res_archive[t].name)) \in {EXT_7Z, EXT_EXE} )
         => LowerNames(qemu_dir') = LowerNames(Range(Required(res_variant)))
      ]_vars

----------------------------------------------------------------------------
(* ProcessRunner: QemuManager.run_command and run_qemu_win, with the
   re-extraction they run after a missing-dependency exit code *)

\* 3221225781 = 0xC0000135, kept as its two 16-bit words (49152 * 65536 + 309)
DLL_NOT_FOUND_HIGH == 49152
DLL_NOT_FOUND_LOW  == 309

\* a 32-bit exit code
Code32(high, low) == <<high, low>>

WINDOWS_DLL_NOT_FOUND == Code32(DLL_NOT_FOUND_HIGH, DLL_NOT_FOUND_LOW)
EXIT_SUCCESS == Code32(0, 0)
EXIT_FAILURE == Code32(0, 1)

\* the process is started at most this many times in the runs explored
MaxInvocations == 3

\* how one invocation of qemu-img ends: an exit code, or the timeout of
\* subprocess.run.  Off Windows an exit status has eight bits, and run_qemu_win
\* passes no timeout.
Exit(code) == [kind |-> "exit", code |-> code]
Timeout    == [kind |-> "timeout", code |-> EXIT_SUCCESS]

Outcomes(variant, win) ==
    { Exit(c) : c \in (IF win THEN {EXIT_SUCCESS, EXIT_FAILURE, WINDOWS_DLL_NOT_FOUND}
                            ELSE {EXIT_SUCCESS, EXIT_FAILURE}) }
        \cup (IF variant = "manager" THEN {Timeout} ELSE {})

\* QemuManager._extract_qemu as a whole: locate (the caller passes the archive
\* the locator chose), extract, verify
ManagerExtractQemu(dir, listing, a, local, system, readable) ==
    IF ManagerCandidates(listing) = {}
    THEN [dir |-> dir, result |-> Res("error", "QemuExtractionError", "no_archive", {})]
    ELSE LET x == ManagerExtract(dir, a, local, system, readable)
         IN  IF x.result.status # "ok" THEN x
             ELSE [dir |-> x.dir, result |-> ManagerVerify(x.dir)]

\* qemu_utils.init_qemu as a whole: nothing to do when the files are there,
\* else extract_qemu
LegacyInitQemu(dir, listing, a, local, system, ok1, ok2, readable) ==
    IF CheckFilesPresent(LEGACY_REQUIRED_QEMU_FILES, dir)
    THEN [dir |-> dir, local |-> local, result |-> Ok]
    ELSE IF LegacyCandidates(listing) = {}
    THEN [dir |-> dir, local |-> local,
          result |-> Res("error", "FileNotFoundError", "no_archive", {})]
    ELSE LET x == LegacyExtract(dir, a, local, system, Find7zInstaller(listing),
                                ok1, ok2, readable)
         IN  IF x.result.status # "ok" THEN x
             ELSE [dir |-> x.dir, local |-> x.local,
                   result |-> LegacyVerify(x.dir, a)]

\* the archives the locator may hand to the extraction
ManagerChoices(listing) ==
    IF ManagerCandidates(listing) = {} THEN {NoArchive} ELSE ManagerBest(listing)

LegacyChoices(listing) ==
    IF LegacyCandidates(listing) = {} THEN {NoArchive} ELSE LegacyBest(listing)

\* a runner that takes the recovery branch after every attempt
ManagerAfterAttemptLoops(attempt, o, win) ==
    IF o.kind = "timeout" THEN "timeout"
    ELSE IF o.code = WINDOWS_DLL_NOT_FOUND /\ win THEN "recover"
    ELSE "return"

\* run_command, lines 119-131: what follows the attempt-th run of the process
ManagerAfterAttempt(attempt, o, win) ==
    IF o.kind = "timeout" THEN "timeout"
    ELSE IF attempt = 1 /\ o.code = WINDOWS_DLL_NOT_FOUND /\ win THEN "recover"
    ELSE "return"

\* run_qemu_win, lines 226-257: what follows the attempt-th run of the process
LegacyAfterAttempt(attempt, o) ==
    IF o.code = WINDOWS_DLL_NOT_FOUND
    THEN IF attempt = 1 THEN "recover" ELSE "diagnostic"
    ELSE IF o.code # EXIT_SUCCESS THEN "failed"
    ELSE "success"

\* str(returncode)
CodeText(code) ==
    IF code = EXIT_SUCCESS THEN "0"
    ELSE IF code = EXIT_FAILURE THEN "1"
    ELSE "3221225781"

\* what the process can have written to stdout and to stderr
Captured == [stdout : {"", "out"}, stderr : {"", "err"}]

\* a failure message that leaves the captured stdout out
ManagerMessageWithoutStdout(o, cap) ==
    IF o.code = EXIT_SUCCESS THEN << >>
    ELSE <<"qemu-img failed (code ", CodeText(o.code), ")">>
         \o (IF cap.stderr # "" THEN <<"STDERR:", cap.stderr>> ELSE << >>)

\* create_image, lines 193-206: the message made of what run_command returned
ManagerMessage(o, cap) ==
    IF o.code = EXIT_SUCCESS THEN << >>
    ELSE <<"qemu-img failed (code ", CodeText(o.code), ")">>
         \o (IF cap.stdout # "" THEN <<"STDOUT:", cap.stdout>> ELSE << >>)
         \o (IF cap.stderr # "" THEN <<"STDERR:", cap.stderr>> ELSE << >>)

\* run_qemu_win, lines 243-257: the message for each way the call ends
LegacyMessage(after, o, cap) ==
    CASE after = "diagnostic" ->
           <<"qemu-img.exe failed to start due to missing DLLs (error 3221225781).",
             "Files in tools/qemu/: ", "Missing DLLs: ">>
      [] after = "failed" ->
           <<"qemu-img failed (code ", CodeText(o.code), ")",
             "STDOUT:", cap.stdout, "STDERR:", cap.stderr>>
      [] OTHER -> << >>

\* run_qemu_win, lines 245-246: list_qemu_dir_files() and the required files
\* that do not exist
LegacyDiag(after, dir) ==
    IF after = "diagnostic"
    THEN [listed |-> TRUE, files |-> dir,
          missing |-> MissingFiles(LEGACY_REQUIRED_QEMU_FILES, dir)]
    ELSE NoDiag

\* the call ends with result r
RunFinish(r) ==
    /\ run_pc' = "done"
    /\ run_result' = r

\* entry of run_command (get_executable_path) and of run_qemu_win (init_qemu,
\* outside any try)
RunCall ==
    /\ run_pc = "idle"
    /\ IF run_variant = "manager"
       THEN /\ IF is_windows /\ ~Exists(qemu_dir, F_qemu_img)
               THEN /\ RunFinish(RunRes("raised", EXIT_SUCCESS, "failed_to_run"))
                    /\ run_message' = <<"Failed to run QEMU command">>
               ELSE run_pc' = "first" /\ UNCHANGED <<run_result, run_message>>
            /\ UNCHANGED fsVars
       ELSE \E a \in LegacyChoices(tools), ok1, ok2, readable \in BOOLEAN :
              LET x == LegacyInitQemu(qemu_dir, tools, a, sevenzip_local,
                                      sevenzip_system, ok1, ok2, readable)
              IN  /\ qemu_dir' = x.dir
                  /\ sevenzip_local' = x.local
                  /\ IF x.result.status = "ok"
                     THEN run_pc' = "first" /\ UNCHANGED run_result
                     ELSE RunFinish(RunRes("raised", EXIT_SUCCESS, x.result.text))
                  /\ UNCHANGED <<tools, sevenzip_system, is_windows, system_qemu,
                                 run_message>>
    /\ UNCHANGED <<run_variant, invocations, codes, recovered, reextracted,
                   run_captured, run_diag, runOthers>>

\* subprocess.run starts the process for the attempt-th time and it ends
\* with outcome o
Attempt(attempt, o) ==
    /\ invocations < MaxInvocations
    /\ invocations' = invocations + 1
    /\ codes' = Append(codes, o)
    /\ \E cap \in (IF o.kind = "timeout" THEN {NoCaptured} ELSE Captured) :
         /\ run_captured' = cap
         /\ IF run_variant = "manager"
            THEN LET after == ManagerAfterAttempt(attempt, o, is_windows)
                 IN  /\ run_diag' = NoDiag
                     /\ CASE after = "timeout" ->
                               /\ RunFinish(RunRes("raised", EXIT_SUCCESS, "timed_out"))
                               /\ run_message' = <<"QEMU command timed out">>
                          [] after = "recover" ->
                               /\ run_pc' = "recover"
                               /\ UNCHANGED <<run_result, run_message>>
                          [] OTHER ->
                               /\ RunFinish(RunRes("returned", o.code, "completed"))
                               /\ run_message' = ManagerMessage(o, cap)
            ELSE LET after == LegacyAfterAttempt(attempt, o)
                 IN  /\ run_diag' = LegacyDiag(after, qemu_dir)
                     /\ run_message' = LegacyMessage(after, o, cap)
                     /\ CASE after = "recover" -> run_pc' = "recover" /\ UNCHANGED run_result
                          [] after = "diagnostic" ->
                               RunFinish(RunRes("returned", o.code, "missing_dlls_diagnostic"))
                          [] after = "failed" ->
                               RunFinish(RunRes("returned", o.code, "qemu_img_failed"))
                          [] OTHER -> RunFinish(RunRes("returned", o.code, "success"))
    /\ UNCHANGED <<fsVars, run_variant, recovered, reextracted, runOthers>>

FirstAttempt ==
    /\ run_pc = "first"
    /\ \E o \in Outcomes(run_variant, is_windows) : Attempt(1, o)

RetryAttempt ==
    /\ run_pc = "retry"
    /\ \E o \in Outcomes(run_variant, is_windows) : Attempt(2, o)

\* a recovery that runs the process again whether or not the re-extraction
\* succeeded
ManagerRecoverRetriesAnyway ==
    /\ run_pc = "recover" /\ run_variant = "manager"
    /\ \E a \in ManagerChoices(tools), readable \in BOOLEAN :
         LET x == ManagerExtractQemu(qemu_dir, tools, a, sevenzip_local,
                                     sevenzip_system, readable)
         IN  /\ qemu_dir' = x.dir
             /\ reextracted' = (ManagerCandidates(tools) # {})
             /\ run_pc' = "retry"
             /\ recovered' = IF x.result.status = "ok" THEN "ok" ELSE "failed"
             /\ UNCHANGED <<run_result, run_message>>
    /\ UNCHANGED <<tools, sevenzip_local, sevenzip_system, is_windows, system_qemu,
                   run_variant, invocations, codes, run_captured, run_diag, runOthers>>

\* QemuManager._handle_dll_error: always re-extracts
ManagerRecover ==
    /\ run_pc = "recover" /\ run_variant = "manager"
    /\ \E a \in ManagerChoices(tools), readable \in BOOLEAN :
         LET x == ManagerExtractQemu(qemu_dir, tools, a, sevenzip_local,
                                     sevenzip_system, readable)
         IN  /\ qemu_dir' = x.dir
             /\ reextracted' = (ManagerCandidates(tools) # {})
             /\ IF x.result.status = "ok"
                THEN /\ run_pc' = "retry" /\ recovered' = "ok"
                     /\ UNCHANGED <<run_result, run_message>>
                ELSE /\ RunFinish(RunRes("raised", EXIT_SUCCESS, "recovery_failed"))
                     /\ recovered' = "failed"
                     /\ run_message' = <<"Failed to run QEMU command",
                                         "QEMU failed with DLL error and recovery failed">>
    /\ UNCHANGED <<tools, sevenzip_local, sevenzip_system, is_windows, system_qemu,
                   run_variant, invocations, codes, run_captured, run_diag, runOthers>>

\* run_qemu_win, lines 235-240: init_qemu again, inside a try
LegacyRecover ==
    /\ run_pc = "recover" /\ run_variant = "legacy"
    /\ \E a \in LegacyChoices(tools), ok1, ok2, readable \in BOOLEAN :
         LET x == LegacyInitQemu(qemu_dir, tools, a, sevenzip_local,
                                 sevenzip_system, ok1, ok2, readable)
         IN  /\ qemu_dir' = x.dir
             /\ sevenzip_local' = x.local
             /\ reextracted' = (/\ ~CheckFilesPresent(LEGACY_REQUIRED_QEMU_FILES, qemu_dir)
                                 /\ LegacyCandidates(tools) # {})
             /\ IF x.result.status = "ok"
                THEN /\ run_pc' = "retry" /\ recovered' = "ok"
                     /\ UNCHANGED <<run_result, run_message>>
                ELSE /\ RunFinish(RunRes("returned", WINDOWS_DLL_NOT_FOUND,
                                         "re_extraction_failed"))
                     /\ recovered' = "failed"
                     /\ run_message' = <<"QEMU re-extraction failed">>
    /\ UNCHANGED <<tools, sevenzip_system, is_windows, system_qemu,
                   run_variant, invocations, codes, run_captured, run_diag, runOthers>>

\* the caller has taken the result; the runner can be called again
RunReturn ==
    /\ run_pc = "done"
    /\ run_pc' = "idle"
    /\ invocations' = 0
    /\ codes' = << >>
    /\ recovered' = "none"
    /\ run_result' = NoRunResult
    /\ reextracted' = FALSE
    /\ run_captured' = NoCaptured
    /\ run_message' = << >>
    /\ run_diag' = NoDiag
    /\ UNCHANGED <<fsVars, run_variant, runOthers>>

InitRunner ==
    /\ run_variant \in {"manager", "legacy"}
    /\ is_windows \in (IF run_variant = "manager" THEN BOOLEAN ELSE {TRUE})
    /\ system_qemu \in (IF is_windows THEN {FALSE} ELSE BOOLEAN)
    /\ tools \in (IF is_windows THEN ResToolsScenarios ELSE {{}})
    /\ qemu_dir \in (IF is_windows THEN ResDirScenarios ELSE {{}})
    /\ sevenzip_local \in (IF is_windows THEN BOOLEAN ELSE {FALSE})
    /\ sevenzip_system \in (IF is_windows THEN BOOLEAN ELSE {FALSE})
    /\ run_pc = "idle"
    /\ invocations = 0
    /\ codes = << >>
    /\ recovered = "none"
    /\ run_result = NoRunResult
    /\ reextracted = FALSE
    /\ run_captured = NoCaptured
    /\ run_message = << >>
    /\ run_diag = NoDiag
    /\ IdleLocator
    /\ IdleResolver
    /\ IdleProgress
    /\ IdleCopy
    /\ IdleArchive
    /\ IdleJob
    /\ IdleImage
    /\ IdleThread
    /\ IdleInstaller
    /\ IdleZip
    /\ IdleCommand

NextRunner ==
    \/ RunCall
    \/ FirstAttempt
    \/ ManagerRecover
    \/ LegacyRecover
    \/ RetryAttempt
    \/ RunReturn
    \/ OutOfBandDelete

SpecRunner == InitRunner /\ [][NextRunner]_vars

----------------------------------------------------------------------------
(* Claims on the runner *)

\* the call ended in a failure: an exception, or a result that reports one
RunFailed(r) ==
    \/ r.status = "raised"
    \/ r.status = "returned" /\ r.code # EXIT_SUCCESS
    \/ r.status = "returned" /\ r.text # "completed" /\ r.text # "success"

\* the process was started, and every invocation ended with the
\* missing-dependency exit code
AlwaysMissingDependency ==
    /\ codes # << >>
    /\ \A i \in DOMAIN codes : codes[i] = Exit(WINDOWS_DLL_NOT_FOUND)

\* C1 (as stated): when every invocation of the process ends with the
\* missing-dependency exit code, the runner has invoked it exactly twice when
\* it returns, and it returns a failure; the process is never invoked a third
\* time.
C1_RetryExactlyOnce ==
    /\ invocations <= 2
    /\ (run_pc = "done" /\ AlwaysMissingDependency)
          => (invocations = 2 /\ RunFailed(run_result))

\* C1 (amended): the process is never invoked a third time, and the call
\* returns a failure; it has invoked the process exactly twice when the
\* re-extraction succeeded, and exactly once when the re-extraction failed.
C1_RetryAtMostOnce ==
    /\ invocations <= 2
    /\ (run_pc = "done" /\ AlwaysMissingDependency)
          => /\ RunFailed(run_result)
             /\ recovered \in {"ok", "failed"}
             /\ recovered = "ok" => invocations = 2
             /\ recovered = "failed" => invocations = 1

\* the process has returned the missing-dependency code twice and the call
\* has ended in a failure
C1_Witness ==
    /\ run_pc = "done"
    /\ codes = <<Exit(WINDOWS_DLL_NOT_FOUND), Exit(WINDOWS_DLL_NOT_FOUND)>>
    /\ recovered = "ok"
    /\ RunFailed(run_result)

----------------------------------------------------------------------------
(* Further claims on the resolver *)

\* the error types that say the tool, or an archive to take it from, was
\* not found, and those that say an extraction failed
NotFoundKind == {"QemuNotFoundError", "FileNotFoundError"}
ExtractionKind == {"QemuExtractionError", "RuntimeError", "BadZipFile"}

\* thread t's call failed because no candidate archive exists
FailedWithoutArchive(t) ==
    /\ pc[t] = "done"
    /\ res_result[t].status = "error"
    /\ res_result[t].text = "no_archive"

\* thread t's call failed in, or after, the extraction from an archive
FailedExtracting(t) ==
    /\ pc[t] = "done"
    /\ res_result[t].status = "error"
    /\ res_archive[t] # NoArchive

\* C24: a resolver that finds the tool not ready and no candidate archive
\* fails with an error of the tool-not-found kind; one whose extraction
\* fails or is incomplete fails with an error of the extraction kind; the
\* two kinds differ by the error type.
C24_ErrorKindsDistinct ==
    \A t \in Threads :
        /\ (BundledPath /\ FailedWithoutArchive(t)) =>
              /\ res_result[t].error \in NotFoundKind
              /\ res_result[t].error \notin ExtractionKind
        /\ (BundledPath /\ FailedExtracting(t)) =>
              /\ res_result[t].error \in ExtractionKind
              /\ res_result[t].error \notin NotFoundKind

\* what holds of qemu_utils.init_qemu
LegacyErrorKindsDistinct ==
    \A t \in Threads :
        /\ (res_variant = "legacy" /\ FailedWithoutArchive(t)) =>
              res_result[t].error \in NotFoundKind \ ExtractionKind
        /\ (res_variant = "legacy" /\ FailedExtracting(t)) =>
              res_result[t].error \in ExtractionKind \ NotFoundKind

----------------------------------------------------------------------------
(* Further claims on the runner *)

MissingDependency == Exit(WINDOWS_DLL_NOT_FOUND)

\* C21: when the first attempt exits with the missing-dependency code, an
\* extraction from the archive is performed between the first and the
\* second attempt, also when every required file is in the install
\* directory: the readiness check does not suppress the re-extraction.
C21_ReextractionBetweenAttempts ==
    (/\ Len(codes) = 2
     /\ codes[1] = MissingDependency) =>
        reextracted

\* what holds of QemuManager.run_command, whose _handle_dll_error calls
\* _extract_qemu without a readiness check
ManagerReextracts ==
    (/\ run_variant = "manager"
     /\ Len(codes) = 2
     /\ codes[1] = MissingDependency) =>
        reextracted

\* the call ends in this step
RunFinishing == run_pc # "done" /\ run_pc' = "done"

\* C22: when the retried attempt also exits with the missing-dependency
\* code, the failure returned lists the current contents of the install
\* directory and the required files still missing, and there is no third
\* attempt.
C22_DiagnosticAfterSecondFailure ==
    [][(RunFinishing /\ codes' = <<MissingDependency, MissingDependency>>) =>
          /\ invocations' = 2
          /\ run_diag' = [listed |-> TRUE, files |-> qemu_dir',
                          missing |-> MissingFiles(Required(run_variant), qemu_dir')]
      ]_vars

\* what holds of run_qemu_win
LegacyDiagnosticListsDirectory ==
    [][(/\ run_variant = "legacy"
        /\ RunFinishing
        /\ codes' = <<MissingDependency, MissingDependency>>) =>
          /\ invocations' = 2
          /\ run_diag' = [listed |-> TRUE, files |-> qemu_dir',
                          missing |-> MissingFiles(Required(run_variant), qemu_dir')]
      ]_vars

\* C23: if the first attempt exits with a non-zero code other than the
\* missing-dependency code, the process is invoked exactly once, nothing is
\* re-extracted, and the failure message holds the captured stdout and
\* stderr unchanged.
C23_OtherFailureIsTerminal ==
    (codes # << >> /\ codes[1] = Exit(EXIT_FAILURE)) =>
        /\ run_pc = "done"
        /\ invocations = 1
        /\ recovered = "none"
        /\ ~reextracted
        /\ RunFailed(run_result)
        /\ run_captured.stdout # "" => run_captured.stdout \in Range(run_message)
        /\ run_captured.stderr # "" => run_captured.stderr \in Range(run_message)

C23_Witness ==
    /\ run_pc = "done"
    /\ codes = <<Exit(EXIT_FAILURE)>>
    /\ run_captured = [stdout |-> "out", stderr |-> "err"]
    /\ run_variant = "manager"
    /\ "out" \in Range(run_message)
    /\ "err" \in Range(run_message)

\* the messages that report a failed recovery: _handle_dll_error, line 369,
\* and run_qemu_win, line 239
RecoveryFailureTexts ==
    {"QEMU failed with DLL error and recovery failed", "QEMU re-extraction failed"}

\* C38: if the re-extraction attempted after a missing-dependency exit fails,
\* there is no second invocation: the operation ends with a terminal failure
\* whose message reports the failed recovery, and the process has been
\* invoked exactly once.
C38_FailedRecoveryIsTerminal ==
    recovered = "failed" =>
        /\ run_pc = "done"
        /\ invocations = 1
        /\ codes = <<MissingDependency>>
        /\ RunFailed(run_result)
        /\ Range(run_message) \cap RecoveryFailureTexts # {}

\* the first run ended with the missing-dependency code, the re-extraction
\* failed and the call has ended
C38_Witness ==
    /\ run_pc = "done"
    /\ recovered = "failed"
    /\ run_variant = "manager"
    /\ codes = <<MissingDependency>>
    /\ run_result.status = "raised"

\* the same end is reached by run_qemu_win
C38_LegacyReached ==
    /\ run_pc = "done"
    /\ recovered = "failed"
    /\ run_variant = "legacy"

----------------------------------------------------------------------------
(* QemuManager._run_command_with_progress: the main thread, the thread
   running monitor_progress, and the qemu-img process writing the output *)

\* the output file takes sizes 0 .. MaxSize
MaxSize == 3

\* progress_callback(n) is invoked
Emit(n) ==
    /\ emitted' = Append(emitted, n)
    /\ late_emission' = (late_emission \/ main_pc = "returned")

\* the call returns r
ProgReturn(r) ==
    /\ main_pc' = "returned"
    /\ prog_result' = r

\* lines 416-448: Popen starts the process and the monitor thread is started;
\* a Popen that raises is caught by the outer handler
ProgCall ==
    /\ main_pc = "idle"
    /\ \E started \in BOOLEAN, existed \in BOOLEAN, size \in 0..MaxSize :
         IF started
         THEN /\ proc' = "running"
              /\ out_exists' = existed
              /\ out_size' = (IF existed THEN size ELSE 0)
              /\ mon_pc' = "loop"
              /\ main_pc' = "communicate"
              /\ UNCHANGED prog_result
         ELSE /\ ProgReturn("exception")
              /\ UNCHANGED <<proc, out_exists, out_size, mon_pc>>
    /\ UNCHANGED <<returncode, progress_stop, timed_out, last_size, current_size,
                   emitted, late_emission, progOthers>>

\* qemu-img creates, extends or truncates the output file
ProcessWrites ==
    /\ proc = "running"
    /\ out_exists' = TRUE
    /\ \E size \in 0..MaxSize :
         /\ (out_exists => size # out_size)
         /\ out_size' = size
    /\ UNCHANGED <<proc, returncode, progress_stop, main_pc, timed_out, mon_pc,
                   last_size, current_size, emitted, late_emission, prog_result,
                   progOthers>>

\* qemu-img exits
ProcessExits ==
    /\ proc = "running"
    /\ proc' = "exited"
    /\ returncode' \in {0, 1}
    /\ UNCHANGED <<out_exists, out_size, progress_stop, main_pc, timed_out, mon_pc,
                   last_size, current_size, emitted, late_emission, prog_result,
                   progOthers>>

\* a loop that goes on until the event is set, whatever qemu-img does
UntilStopped(stop, state) == ~stop

\* monitor_progress, line 434: not progress_stop.is_set() and
\* process.poll() is None
KeepsPolling(stop, state) == ~stop /\ state = "running"

\* an emission whenever the size is not below the last one emitted
NotSmaller(size, last) == size >= last

\* monitor_progress, line 438: current_size > last_size
Grew(size, last) == size > last

\* monitor_progress, line 434: the loop test
MonitorTest ==
    /\ mon_pc = "loop"
    /\ mon_pc' = (IF KeepsPolling(progress_stop, proc) THEN "stat" ELSE "exit")
    /\ UNCHANGED <<proc, returncode, out_exists, out_size, progress_stop, main_pc,
                   timed_out, last_size, current_size, emitted, late_emission,
                   prog_result, progOthers>>

\* monitor_progress, lines 436-438: exists(), stat(), which raises when the
\* file cannot be stat'ed, and the comparison
MonitorStat ==
    /\ mon_pc = "stat"
    /\ \E statable \in BOOLEAN :
         IF ~out_exists
         THEN UNCHANGED current_size /\ mon_pc' = "sleep"
         ELSE IF ~statable
         THEN UNCHANGED current_size /\ mon_pc' = "except"
         ELSE IF Grew(out_size, last_size)
         THEN current_size' = out_size /\ mon_pc' = "emit"
         ELSE UNCHANGED current_size /\ mon_pc' = "sleep"
    /\ UNCHANGED <<proc, returncode, out_exists, out_size, progress_stop, main_pc,
                   timed_out, last_size, emitted, late_emission, prog_result,
                   progOthers>>

\* monitor_progress, lines 439-440: the callback and the update of last_size
MonitorEmit ==
    /\ mon_pc = "emit"
    /\ Emit(current_size)
    /\ last_size' = current_size
    /\ mon_pc' = "sleep"
    /\ UNCHANGED <<proc, returncode, out_exists, out_size, progress_stop, main_pc,
                   timed_out, current_size, prog_result, progOthers>>

\* monitor_progress, lines 441-442: except Exception: pass
MonitorExcept ==
    /\ mon_pc = "except"
    /\ mon_pc' = "sleep"
    /\ UNCHANGED <<proc, returncode, out_exists, out_size, progress_stop, main_pc,
                   timed_out, last_size, current_size, emitted, late_emission,
                   prog_result, progOthers>>

\* monitor_progress, line 443: time.sleep(0.5)
MonitorSleep ==
    /\ mon_pc = "sleep"
    /\ mon_pc' = "loop"
    /\ UNCHANGED <<proc, returncode, out_exists, out_size, progress_stop, main_pc,
                   timed_out, last_size, current_size, emitted, late_emission,
                   prog_result, progOthers>>

\* lines 450-455: communicate() returns once the process has exited, and the
\* event is set
CommunicateReturns ==
    /\ main_pc = "communicate" /\ proc = "exited"
    /\ progress_stop' = TRUE
    /\ main_pc' = "join"
    /\ UNCHANGED <<proc, returncode, out_exists, out_size, timed_out, mon_pc,
                   last_size, current_size, emitted, late_emission, prog_result,
                   progOthers>>

\* lines 475-478: communicate() times out; the process is killed and the
\* event is set
CommunicateTimesOut ==
    /\ main_pc = "communicate" /\ proc = "running"
    /\ proc' = "exited"
    /\ returncode' = 1
    /\ timed_out' = TRUE
    /\ progress_stop' = TRUE
    /\ main_pc' = "join"
    /\ UNCHANGED <<out_exists, out_size, mon_pc, last_size, current_size, emitted,
                   late_emission, prog_result, progOthers>>

\* lines 480-482: communicate() raises something else (its output cannot be
\* decoded, for one); the outer handler returns the message
CommunicateRaises ==
    /\ main_pc = "communicate"
    /\ ProgReturn("exception")
    /\ UNCHANGED <<proc, returncode, out_exists, out_size, progress_stop, timed_out,
                   mon_pc, last_size, current_size, emitted, late_emission,
                   progOthers>>

\* progress_thread.join(timeout=1): returns when the thread has ended, or
\* after one second
Join ==
    /\ main_pc = "join"
    /\ \E waited_out \in BOOLEAN : mon_pc = "exit" \/ waited_out
    /\ main_pc' = "final"
    /\ UNCHANGED <<proc, returncode, out_exists, out_size, progress_stop, timed_out,
                   mon_pc, last_size, current_size, emitted, late_emission,
                   prog_result, progOthers>>

\* lines 457-473 and 479: the final emission and the return
Final ==
    /\ main_pc = "final"
    /\ IF timed_out
       THEN ProgReturn("timed_out") /\ UNCHANGED <<emitted, late_emission>>
       ELSE IF returncode = 0
       THEN /\ IF out_exists THEN Emit(out_size)
                             ELSE UNCHANGED <<emitted, late_emission>>
            /\ ProgReturn("success")
       ELSE ProgReturn("failed") /\ UNCHANGED <<emitted, late_emission>>
    /\ UNCHANGED <<proc, returncode, out_exists, out_size, progress_stop, timed_out,
                   mon_pc, last_size, current_size, progOthers>>

InitProgress ==
    /\ IdleFs
    /\ IdleLocator
    /\ IdleResolver
    /\ IdleRunner
    /\ IdleProgress
    /\ IdleCopy
    /\ IdleArchive
    /\ IdleJob
    /\ IdleImage
    /\ IdleThread
    /\ IdleInstaller
    /\ IdleZip
    /\ IdleCommand

NextProgress ==
    \/ ProgCall
    \/ ProcessWrites
    \/ ProcessExits
    \/ MonitorTest
    \/ MonitorStat
    \/ MonitorEmit
    \/ MonitorExcept
    \/ MonitorSleep
    \/ CommunicateReturns
    \/ CommunicateTimesOut
    \/ CommunicateRaises
    \/ Join
    \/ Final

SpecProgress == InitProgress /\ [][NextProgress]_vars

\* the monitor thread is scheduled again and again, and stat(), the callback
\* and sleep() return
MonitorFairness ==
    /\ WF_vars(MonitorTest)
    /\ WF_vars(MonitorStat)
    /\ WF_vars(MonitorEmit)
    /\ WF_vars(MonitorExcept)
    /\ WF_vars(MonitorSleep)

SpecProgressFair == SpecProgress /\ MonitorFairness

----------------------------------------------------------------------------
(* Claims on the progress monitoring *)

\* C2: the byte counts passed to progress_callback by one call of
\* _run_command_with_progress, the monitor's and then the final one, never
\* decrease.
C2_EmissionsNonDecreasing ==
    \A i, j \in DOMAIN emitted : i < j => emitted[i] <= emitted[j]

\* C3: once _run_command_with_progress has returned, progress_callback is not
\* invoked again.
C3_NoEmissionAfterReturn == ~late_emission

\* the main thread leaves the code that follows join(): lines 457-473 and 479
ProgFinishing == main_pc = "final" /\ main_pc' = "returned"

\* the last size the call knows of the output file
LastKnownSize == IF out_exists THEN out_size ELSE last_size

\* C28: when the subprocess has ended, with exit code 0, a non-zero exit code
\* or by the kill after the timeout, exactly one final progress event that
\* carries the last-known size of the output file is emitted after the
\* polling was stopped.
C28_OneFinalEvent ==
    [][ProgFinishing => emitted' = Append(emitted, LastKnownSize)]_vars

\* what the code does ensure: the final event after exit code 0 when the
\* output file exists, and none otherwise
FinalEventOnSuccessOnly ==
    [][ProgFinishing =>
         emitted' = IF ~timed_out /\ returncode = 0 /\ out_exists
                    THEN Append(emitted, out_size) ELSE emitted]_vars

\* one poll of the monitor ends: lines 436-438 were passed
Polled == mon_pc = "stat" /\ mon_pc' # "stat"

\* a poll that neither emits nor raises out of the monitor
Skipped == mon_pc' \in {"sleep", "except"} /\ emitted' = emitted

\* C29: a poll at which the output file does not exist or cannot be stat'ed
\* emits nothing, raises no error and is followed by the next poll; once the
\* file has appeared, its size is emitted.
C29_FileSizeEmittedOnceItAppears ==
    [][/\ (Polled /\ ~out_exists) => Skipped
       /\ (Polled /\ out_exists /\ emitted = << >>) =>
             \/ mon_pc' = "except" /\ emitted' = emitted
             \/ mon_pc' = "emit" /\ current_size' = out_size
       /\ (mon_pc = "except" /\ mon_pc' # "except") =>
             (mon_pc' = "sleep" /\ emitted' = emitted)
       /\ (mon_pc = "emit" /\ mon_pc' # "emit") => emitted' = Append(emitted, current_size)
      ]_vars

\* C29 as the code has it: the size of a file that has appeared is emitted
\* once it is larger than the last size emitted (0 at the start), so an
\* empty file is passed over like a missing one
C29_FileSizeEmittedOnceItGrew ==
    [][/\ (Polled /\ ~out_exists) => Skipped
       /\ (Polled /\ out_exists /\ out_size > last_size) =>
             \/ mon_pc' = "except" /\ emitted' = emitted
             \/ mon_pc' = "emit" /\ current_size' = out_size
       /\ (Polled /\ out_exists /\ out_size <= last_size) => Skipped
       /\ (mon_pc = "except" /\ mon_pc' # "except") =>
             (mon_pc' = "sleep" /\ emitted' = emitted)
       /\ (mon_pc = "emit" /\ mon_pc' # "emit") => emitted' = Append(emitted, current_size)
      ]_vars

\* a file that was missing at one poll has been emitted at a later one
C29_Witness ==
    /\ emitted # << >>
    /\ emitted[1] > 0
    /\ mon_pc = "sleep"
    /\ main_pc = "communicate"

\* C30: once the subprocess has ended (success, failure or kill) or the stop
\* event is set, the monitor thread leaves its loop and ends, when the thread
\* keeps being scheduled and the callback returns.
C30_MonitorTerminates ==
    (proc = "exited" \/ progress_stop) ~> mon_pc = "exit"

\* the monitor has ended after the process did, without the event being set
C30_Witness ==
    /\ mon_pc = "exit"
    /\ proc = "exited"
    /\ ~progress_stop

----------------------------------------------------------------------------
(* The direct-copy loop of create_disk_image: read the device in chunks of
   bs bytes, seek over an all-zero chunk, write any other *)

MaxSrcLen == 4
MaxBuf    == 2

Bytes == {0, 1}

\* every sequence over S of length at most n
RECURSIVE SeqsUpTo(_, _)
SeqsUpTo(S, n) ==
    IF n = 0 THEN { << >> }
    ELSE LET shorter == SeqsUpTo(S, n - 1)
         IN  shorter \cup { Append(q, b) : q \in { r \in shorter : Len(r) = n - 1 }, b \in S }

Min(a, b) == IF a < b THEN a ELSE b

\* disk_file.read(n) at position pos
ReadChunk(data, pos, n) == SubSeq(data, pos + 1, Min(pos + n, Len(data)))

\* chunk.count(0) == len(chunk)
AllZero(chunk) == \A i \in DOMAIN chunk : chunk[i] = 0

\* image_file.write(chunk) at position pos: a gap left by seeking reads as
\* zeros, bytes under the chunk are replaced
WriteAt(data, pos, chunk) ==
    LET end == pos + Len(chunk)
        len == IF end > Len(data) THEN end ELSE Len(data)
    IN  [i \in 1..len |->
            IF i > pos /\ i <= end THEN chunk[i - pos]
            ELSE IF i <= Len(data) THEN data[i]
            ELSE 0]

\* open(device_path, 'rb') and open(raw_path, 'wb'): the destination is
\* truncated
CopyOpen ==
    /\ copy_pc = "idle"
    /\ copy_pc' = "loop"
    /\ dest' = << >>
    /\ dest_pos' = 0
    /\ src_pos' = 0
    /\ bytes_read' = 0
    /\ UNCHANGED <<source, bs, copy_progress, copyOthers>>

\* one iteration of the loop; an empty read ends it and the files are closed
CopyChunk ==
    /\ copy_pc = "loop"
    /\ LET chunk == ReadChunk(source, src_pos, bs)
       IN  IF chunk = << >>
           THEN /\ copy_pc' = "done"
                /\ UNCHANGED <<src_pos, dest, dest_pos, bytes_read, copy_progress>>
           ELSE /\ src_pos' = src_pos + Len(chunk)
                /\ IF AllZero(chunk)
                   THEN UNCHANGED dest
                   ELSE dest' = WriteAt(dest, dest_pos, chunk)
                /\ dest_pos' = dest_pos + Len(chunk)
                /\ bytes_read' = bytes_read + Len(chunk)
                /\ copy_progress' = Append(copy_progress, bytes_read + Len(chunk))
                /\ UNCHANGED copy_pc
    /\ UNCHANGED <<source, bs, copyOthers>>

\* create_disk_clone, line 30: open(src_path, 'rb') and open(dst_path, 'wb')
CloneOpen ==
    /\ copy_pc = "idle"
    /\ copy_pc' = "clone"
    /\ dest' = << >>
    /\ dest_pos' = 0
    /\ src_pos' = 0
    /\ bytes_read' = 0
    /\ UNCHANGED <<source, bs, copy_progress, copyOthers>>

\* create_disk_clone, lines 31-37: one iteration of the loop; every chunk is
\* written and progress_callback(len(chunk)) is called
CloneChunk ==
    /\ copy_pc = "clone"
    /\ LET chunk == ReadChunk(source, src_pos, bs)
       IN  IF chunk = << >>
           THEN /\ copy_pc' = "done"
                /\ UNCHANGED <<src_pos, dest, dest_pos, copy_progress>>
           ELSE /\ src_pos' = src_pos + Len(chunk)
                /\ dest' = WriteAt(dest, dest_pos, chunk)
                /\ dest_pos' = dest_pos + Len(chunk)
                /\ copy_progress' = Append(copy_progress, Len(chunk))
                /\ UNCHANGED copy_pc
    /\ UNCHANGED <<source, bs, bytes_read, copyOthers>>

InitCopy ==
    /\ source \in SeqsUpTo(Bytes, MaxSrcLen)
    /\ bs \in 1..MaxBuf
    /\ dest \in { << >>, <<1, 1>> }
    /\ copy_pc = "idle"
    /\ src_pos = 0
    /\ dest_pos = 0
    /\ bytes_read = 0
    /\ copy_progress = << >>
    /\ IdleFs
    /\ IdleLocator
    /\ IdleResolver
    /\ IdleRunner
    /\ IdleProgress
    /\ IdleArchive
    /\ IdleJob
    /\ IdleImage
    /\ IdleThread
    /\ IdleInstaller
    /\ IdleZip
    /\ IdleCommand

NextCopy ==
    \/ CopyOpen
    \/ CopyChunk
    \/ CloneOpen
    \/ CloneChunk

SpecCopy == InitCopy /\ [][NextCopy]_vars

----------------------------------------------------------------------------
(* Claims on the direct copy *)

\* the k-th chunk the loop reads from data
ChunkOf(data, n, k) == ReadChunk(data, (k - 1) * n, n)

NumChunks(data, n) == (Len(data) + n - 1) \div n

\* all-zero and non-zero chunks alternate, whichever kind comes first or last
Alternating(data, n) ==
    /\ NumChunks(data, n) >= 2
    /\ \A k \in 1..(NumChunks(data, n) - 1) :
          AllZero(ChunkOf(data, n, k)) # AllZero(ChunkOf(data, n, k + 1))

\* C6: for a source of alternating all-zero and non-zero chunks, whichever
\* kind the first and the last chunk are, the finished direct copy has the
\* length and the bytes of the source.
C6_DirectCopyRoundTrip ==
    (copy_pc = "done" /\ Alternating(source, bs)) => dest = source

\* C31: in the direct copy the progress callback is invoked after each chunk
\* with the cumulative number of bytes copied so far, in create_disk_image
\* and in create_disk_clone alike: the values strictly increase and the last
\* one is the size of the source.
C31_CumulativeProgress ==
    /\ \A i, j \in DOMAIN copy_progress : i < j => copy_progress[i] < copy_progress[j]
    /\ (copy_pc = "done" /\ source # << >>) =>
          copy_progress[Len(copy_progress)] = Len(source)

\* what the code does ensure: create_disk_image, which counts bytes_read,
\* reports cumulative values
ImageProgressCumulative ==
    bytes_read > 0 =>
       /\ \A i, j \in DOMAIN copy_progress : i < j => copy_progress[i] < copy_progress[j]
       /\ copy_progress[Len(copy_progress)] = bytes_read
       /\ copy_pc = "done" => bytes_read = Len(source)

----------------------------------------------------------------------------
(* Archiving an image and removing the original:
   ArchiveManager.create_archive and the older archive_image *)

SUPPORTED_ARCHIVE_FORMATS == {"zip", "7z"}

\* how `7z a` can end: its exit status, and what it left at the archive path
\* ("written": a non-empty archive, "empty": a file without a byte,
\* "nothing": the path as it was)
SevenZipOutcomes == [ok : BOOLEAN, left : {"written", "empty", "nothing"}]

\* the call returns r
ArchFinish(r) ==
    /\ arch_pc' = "done"
    /\ arch_result' = r

\* the archive file after the archiver has run with outcome o
ArchiveAfter(o) ==
    /\ archive_exists' = (IF o.left = "nothing" THEN archive_exists ELSE TRUE)
    /\ archive_nonempty' = (IF o.left = "written" THEN TRUE
                            ELSE IF o.left = "empty" THEN FALSE
                            ELSE archive_nonempty)

\* create_archive, lines 38-53 (validation), and the entry of archive_image
ArchCall ==
    /\ arch_pc = "idle"
    /\ IF arch_variant = "manager"
       THEN IF arch_type \notin SUPPORTED_ARCHIVE_FORMATS
            THEN ArchFinish("error_unsupported_type")
            ELSE IF ~image_exists
            THEN ArchFinish("error_no_source")
            ELSE arch_pc' = "create" /\ UNCHANGED arch_result
       ELSE IF arch_type \notin {"zip", "7z"}
            THEN ArchFinish("error_unknown_type")
            ELSE arch_pc' = "create" /\ UNCHANGED arch_result
    /\ UNCHANGED <<arch_variant, arch_type, cleanup_original, same_path, sevenz_gui, image_exists,
                   archive_exists, archive_nonempty, created, deletion_handed,
                   gui_pending, archOthers>>

\* create_archive, line 50, then _create_zip_archive / _create_7z_archive: on
\* an exception whatever is at the archive path is removed, and that is the
\* image itself when with_suffix gave the image's own path
ManagerCreate ==
    /\ arch_pc = "create" /\ arch_variant = "manager"
    /\ IF arch_type = "zip"
       THEN \E written \in BOOLEAN :
              /\ created' = written
              /\ archive_exists' = written
              /\ archive_nonempty' = written
       ELSE \E available \in BOOLEAN, o \in SevenZipOutcomes :
              IF ~available
              THEN /\ created' = FALSE
                   /\ archive_exists' = FALSE
                   /\ archive_nonempty' = FALSE
              ELSE /\ created' = o.ok
                   /\ ArchiveAfter(o)
    /\ image_exists' = (IF same_path THEN archive_exists' ELSE image_exists)
    /\ arch_pc' = "verify"
    /\ UNCHANGED <<arch_variant, arch_type, cleanup_original, same_path, sevenz_gui,
                   deletion_handed, gui_pending, arch_result, archOthers>>

\* create_archive, lines 62-79: the checks, the removal of the original, the
\* return
ManagerVerifyAndCleanup ==
    /\ arch_pc = "verify" /\ arch_variant = "manager"
    /\ IF ~created
       THEN ArchFinish("error_create_failed") /\ UNCHANGED image_exists
       ELSE IF ~archive_exists
       THEN ArchFinish("error_not_created") /\ UNCHANGED image_exists
       ELSE /\ ArchFinish("success")
            /\ IF cleanup_original
               THEN \E unlinked \in BOOLEAN :
                      image_exists' = (image_exists /\ ~unlinked)
               ELSE UNCHANGED image_exists
    /\ archive_exists' = (IF same_path THEN image_exists' ELSE archive_exists)
    /\ archive_nonempty' = (IF same_path /\ ~image_exists' THEN FALSE ELSE archive_nonempty)
    /\ UNCHANGED <<arch_variant, arch_type, cleanup_original, same_path, sevenz_gui,
                   created, deletion_handed, gui_pending, archOthers>>

\* archive_image: the zip is written, or 7zG is started with -sdel and the
\* call returns, or `7z a` is run
LegacyCreate ==
    /\ arch_pc = "create" /\ arch_variant = "legacy"
    /\ IF arch_type = "zip"
       THEN /\ archive_exists' = TRUE
            /\ IF image_exists
               THEN /\ archive_nonempty' = TRUE
                    /\ arch_pc' = "remove" /\ UNCHANGED arch_result
               ELSE /\ archive_nonempty' \in BOOLEAN
                    /\ ArchFinish("error_zip_failed")
            /\ UNCHANGED <<deletion_handed, gui_pending>>
       ELSE IF sevenz_gui
       THEN /\ deletion_handed' = TRUE
            /\ gui_pending' = TRUE
            /\ ArchFinish("success")
            /\ UNCHANGED <<archive_exists, archive_nonempty>>
       ELSE \E installed \in BOOLEAN, o \in SevenZipOutcomes :
              /\ IF ~installed
                 THEN /\ ArchFinish("error_7z_failed")
                      /\ UNCHANGED <<archive_exists, archive_nonempty>>
                 ELSE /\ ArchiveAfter(o)
                      /\ IF o.ok THEN arch_pc' = "remove" /\ UNCHANGED arch_result
                                 ELSE ArchFinish("error_7z_stderr")
              /\ UNCHANGED <<deletion_handed, gui_pending>>
    /\ UNCHANGED <<arch_variant, arch_type, cleanup_original, same_path, sevenz_gui, image_exists,
                   created, archOthers>>

\* archive_image: os.remove(image_path) and the return
LegacyRemove ==
    /\ arch_pc = "remove" /\ arch_variant = "legacy"
    /\ IF image_exists
       THEN image_exists' = FALSE /\ ArchFinish("success")
       ELSE UNCHANGED image_exists /\ ArchFinish("error_remove_failed")
    /\ UNCHANGED <<arch_variant, arch_type, cleanup_original, same_path, sevenz_gui,
                   archive_exists, archive_nonempty, created, deletion_handed,
                   gui_pending, archOthers>>

\* the 7zG process started by archive_image finishes: with -sdel it deletes
\* the image once it has written the archive
GuiArchiverEnds ==
    /\ gui_pending
    /\ gui_pending' = FALSE
    /\ \E written \in BOOLEAN :
         IF written /\ image_exists
         THEN /\ archive_exists' = TRUE
              /\ archive_nonempty' = TRUE
              /\ image_exists' = FALSE
         ELSE UNCHANGED <<archive_exists, archive_nonempty, image_exists>>
    /\ UNCHANGED <<arch_variant, arch_type, cleanup_original, same_path, sevenz_gui, arch_pc,
                   created, deletion_handed, arch_result, archOthers>>

InitArchive ==
    /\ arch_variant \in {"manager", "legacy"}
    /\ arch_type \in {"zip", "7z", "rar"}
    /\ cleanup_original \in (IF arch_variant = "manager" THEN BOOLEAN ELSE {TRUE})
    /\ same_path \in (IF arch_variant = "manager" THEN BOOLEAN ELSE {FALSE})
    /\ sevenz_gui \in BOOLEAN
    /\ image_exists \in BOOLEAN
    /\ archive_exists \in (IF same_path THEN {image_exists} ELSE BOOLEAN)
    /\ archive_nonempty \in (IF archive_exists THEN BOOLEAN ELSE {FALSE})
    /\ arch_pc = "idle"
    /\ created = FALSE
    /\ deletion_handed = FALSE
    /\ gui_pending = FALSE
    /\ arch_result = "none"
    /\ IdleFs
    /\ IdleLocator
    /\ IdleResolver
    /\ IdleRunner
    /\ IdleProgress
    /\ IdleCopy
    /\ IdleJob
    /\ IdleImage
    /\ IdleThread
    /\ IdleInstaller
    /\ IdleZip
    /\ IdleCommand

NextArchive ==
    \/ ArchCall
    \/ ManagerCreate
    \/ ManagerVerifyAndCleanup
    \/ LegacyCreate
    \/ LegacyRemove
    \/ GuiArchiverEnds

SpecArchive == InitArchive /\ [][NextArchive]_vars

----------------------------------------------------------------------------
(* Claims on the archiving *)

\* the image is deleted in this step, or its deletion is handed to a
\* subprocess
OriginalGivenUp ==
    \/ image_exists /\ ~image_exists'
    \/ ~deletion_handed /\ deletion_handed'

\* C7: the original image is deleted, or its deletion handed to a
\* subprocess, only when the archive file exists and is non-empty.
C7_DeleteOnlyAfterConfirmation ==
    [][OriginalGivenUp => (archive_exists' /\ archive_nonempty')]_vars

\* create_archive returns in this step, after the creation failed or with no
\* file at the archive path
ReturnsWithoutArchive ==
    /\ arch_variant = "manager"
    /\ arch_pc = "verify" /\ arch_pc' = "done"
    /\ (~created \/ ~archive_exists)

\* C39: if the archive creation fails, or the archive file is not found
\* afterwards, create_archive returns a failure and the original image still
\* exists, even when cleanup_original is true.
C39_FailedArchiveKeepsOriginal ==
    [][ReturnsWithoutArchive =>
          /\ arch_result' \in {"error_create_failed", "error_not_created"}
          /\ image_exists'
      ]_vars

\* what the code does ensure: the failure is returned, and the original is
\* kept when the archive path is another path than the image's
FailedArchiveKeepsOriginalElsewhere ==
    [][ReturnsWithoutArchive =>
          /\ arch_result' \in {"error_create_failed", "error_not_created"}
          /\ ~same_path => image_exists'
      ]_vars

----------------------------------------------------------------------------
(* ImagingWorker.run_imaging_job: validation, imaging, optional archiving,
   and the handlers that turn every exception into a returned tuple *)

\* exceptions.py: each class and the class it derives from
ExceptionParent ==
    [ ValidationError     |-> "DiskImageError",
      QemuError           |-> "DiskImageError",
      QemuNotFoundError   |-> "QemuError",
      QemuExtractionError |-> "QemuError",
      ArchiveError        |-> "DiskImageError",
      DiskImageError      |-> "Exception",
      TypeError           |-> "Exception",
      OSError             |-> "Exception",
      Exception           |-> "BaseException" ]

\* isinstance(e, base) for an exception e of class c
RECURSIVE IsSubclass(_, _)
IsSubclass(c, base) ==
    IF c = base THEN TRUE
    ELSE IF c \in DOMAIN ExceptionParent THEN IsSubclass(ExceptionParent[c], base)
    ELSE FALSE

SUPPORTED_IMAGE_FORMATS ==
    [ RawLabel |-> "img", VhdLabel |-> "vhd", VmdkLabel |-> "vmdk",
      Qcow2Label |-> "qcow2", IsoLabel |-> "iso" ]

SPARSE_FORMATS == {"qcow2", "vhd", "vmdk"}

\* validate_image_format: a label is mapped to its format, a format is kept,
\* anything else is refused ("" stands for the ValidationError)
ValidatedFormat(f) ==
    IF f \in DOMAIN SUPPORTED_IMAGE_FORMATS THEN SUPPORTED_IMAGE_FORMATS[f]
    ELSE IF \E k \in DOMAIN SUPPORTED_IMAGE_FORMATS : SUPPORTED_IMAGE_FORMATS[k] = f THEN f
    ELSE ""

\* lines 70-74: the validators in order; the class of the first exception, or
\* "none"
ValidationOutcome(in) ==
    IF in.disk_info # "valid" THEN "ValidationError"
    ELSE IF in.output_path = "not_a_string" THEN "TypeError"
    ELSE IF in.output_path # "valid" THEN "ValidationError"
    ELSE IF ValidatedFormat(in.image_format) = "" THEN "ValidationError"
    ELSE IF in.archive_after /\ in.archive_type \notin SUPPORTED_ARCHIVE_FORMATS \cup {"None"}
         THEN "ValidationError"
    ELSE IF in.buffer_size \notin {"None", "valid"} THEN "ValidationError"
    ELSE "none"

\* handlers that lack the final `except Exception`
JobHandleWithoutCatchAll(c) ==
    IF IsSubclass(c, "ValidationError") THEN JobRes("returned", FALSE, "invalid_input")
    ELSE IF IsSubclass(c, "DiskImageError") THEN JobRes("returned", FALSE, "error_text")
    ELSE JobRes("raised", FALSE, c)

\* lines 125-136: the except clauses, in order
JobHandle(c) ==
    IF IsSubclass(c, "ValidationError") THEN JobRes("returned", FALSE, "invalid_input")
    ELSE IF IsSubclass(c, "DiskImageError") THEN JobRes("returned", FALSE, "error_text")
    ELSE IF IsSubclass(c, "Exception") THEN JobRes("returned", FALSE, "unexpected_error")
    ELSE JobRes("raised", FALSE, c)

\* the call ends with result r
JobFinish(r) ==
    /\ job_pc' = "done"
    /\ job_result' = r

JobCall ==
    /\ job_pc = "idle"
    /\ job_pc' = "validate"
    /\ UNCHANGED <<job_in, job_failure, job_result, jobTrace, jobOthers>>

\* lines 66-77: the validation
JobValidate ==
    /\ job_pc = "validate"
    /\ LET c == ValidationOutcome(job_in)
       IN  IF c = "none"
           THEN job_pc' = "image" /\ UNCHANGED <<job_failure, job_result>>
           ELSE /\ job_failure' = (IF c = "ValidationError" THEN "invalid_input"
                                   ELSE "unexpected_exception")
                /\ JobFinish(JobHandle(c))
    /\ UNCHANGED <<job_in, jobTrace, jobOthers>>

\* what can go wrong inside _run_qemu_imaging, which turns each into
\* (False, message)
ImagingFailures ==
    {"tool_not_found", "extraction_failure", "non_zero_exit", "timeout",
     "unexpected_exception"}

\* sanitize_path_for_subprocess: the path holds one of & | ; $ ` ( ) { }
Rejected(path) == path = "rejected_char"

\* QemuManager.initialize as the job sees it: the extraction attempts and
\* subprocesses it causes, and the failure it ends with.  `ready` is
\* check_files_present(), `kind` the archive the locator finds, `ok` whether
\* the extraction (on Windows) or `qemu-img --version` (elsewhere) succeeds.
InitializeOutcome(win, ready, kind, ok) ==
    IF ~win
    THEN [events |-> <<"spawn qemu-img --version">>,
          failure |-> IF ok THEN "none" ELSE "tool_not_found"]
    ELSE IF ready THEN [events |-> << >>, failure |-> "none"]
    ELSE IF kind = "none" THEN [events |-> <<"extract">>, failure |-> "tool_not_found"]
    ELSE [events |-> IF kind = "zip" THEN <<"extract">> ELSE <<"extract", "spawn 7z">>,
          failure |-> IF ok THEN "none" ELSE "extraction_failure"]

\* the image file is there: archive it or return success
JobImaged ==
    IF job_in.archive_after /\ job_in.archive_type # "None"
    THEN job_pc' = "archive" /\ UNCHANGED job_result
    ELSE JobFinish(JobRes("returned", TRUE, "imaging_completed"))

\* a job that goes on to the archive step after a failed imaging
JobImagingFailedThenArchives(failure, error) ==
    /\ job_failure' = failure
    /\ job_error' = error
    /\ job_pc' = "archive"
    /\ UNCHANGED job_result

\* lines 100-102: the imaging returned (False, error)
JobImagingFailed(failure, error) ==
    /\ job_failure' = failure
    /\ job_error' = error
    /\ JobFinish(JobRes("returned", FALSE, "imaging_failed"))

\* _run_qemu_imaging, line 160: self.qemu_manager.initialize()
JobInitialize ==
    /\ job_pc = "image"
    /\ \E ready, ok \in BOOLEAN, kind \in {"none", "zip", "7z"} :
         LET r == InitializeOutcome(is_windows, ready, kind, ok)
         IN  /\ job_events' = job_events \o r.events
             /\ IF r.failure = "none"
                THEN /\ job_pc' = "create"
                     /\ UNCHANGED <<job_failure, job_error, job_result>>
                ELSE JobImagingFailed(r.failure, <<r.failure>>)
    /\ UNCHANGED <<job_in, job_outcomes, job_reported, job_cmd, jobOthers>>

\* a command that carries -c whenever compression is asked for
BuildCommandAlwaysCompresses(win, sparse, fmt, compress, src, out) ==
    <<"convert", "-p", "-O", fmt>> \o (IF compress THEN <<"-c">> ELSE << >>)
    \o <<src, out>>

\* create_image, lines 159-186: the arguments given to qemu-img
BuildCommand(win, sparse, fmt, compress, src, out) ==
    <<"convert", "-p", "-m", "16", "-W">>
    \o (IF win THEN <<"-T", "none", "-f", "raw">> ELSE << >>)
    \o (IF sparse THEN <<"-S", "4096">> ELSE << >>)
    \o <<"-O", fmt>>
    \o (IF fmt = "raw" THEN <<"-t", "none">> ELSE <<"-t", "writeback">>)
    \o (IF compress /\ fmt \in {"qcow2", "vmdk"} THEN <<"-c">> ELSE << >>)
    \o <<src, out>>

\* how a qemu-img convert process can end: by itself with exit code 0
\* (leaving no output file, an empty one or one of MaxSize bytes), by itself
\* with code 1 (stderr empty or "disk full"), with the missing-dependency
\* code (Windows), by outliving the timeout, or killed from outside
ToolOutcome(kind, code, stderr, file, size) ==
    [kind |-> kind, code |-> code, stderr |-> stderr, file |-> file, size |-> size]

ToolOutcomes(win) ==
    { ToolOutcome("exit", EXIT_SUCCESS, "", FALSE, 0),
      ToolOutcome("exit", EXIT_SUCCESS, "", TRUE, 0),
      ToolOutcome("exit", EXIT_SUCCESS, "", TRUE, MaxSize),
      ToolOutcome("exit", EXIT_FAILURE, "", TRUE, 0),
      ToolOutcome("exit", EXIT_FAILURE, "disk full", TRUE, 0),
      ToolOutcome("timeout", EXIT_FAILURE, "", TRUE, 0),
      ToolOutcome("killed", EXIT_FAILURE, "", TRUE, 0) }
    \cup (IF win THEN {ToolOutcome("exit", WINDOWS_DLL_NOT_FOUND, "", FALSE, 0)} ELSE {})

\* an error text that leaves the captured stderr out
ExitMessageWithoutStderr(o) ==
    <<"qemu-img failed (code ", CodeText(o.code), ")">>

\* the text "qemu-img failed (code N): ... STDERR: ..." of create_image
\* (lines 198-203) and of _run_command_with_progress (lines 465-469); the
\* stub writes nothing to stdout
ExitMessage(o) ==
    <<"qemu-img failed (code ", CodeText(o.code), ")">>
    \o (IF o.stderr # "" THEN <<"STDERR:", o.stderr>> ELSE << >>)

\* what create_image returns for a process that ended with o: the failure
\* kind ("none" for success) and the error text
ToolResult(o, timeout_text) ==
    IF o.kind = "timeout" THEN [failure |-> "timeout", error |-> <<timeout_text>>]
    ELSE IF o.code = EXIT_SUCCESS THEN [failure |-> "none", error |-> << >>]
    ELSE [failure |-> "non_zero_exit", error |-> ExitMessage(o)]

\* create_image through run_command (no progress callback): the processes
\* run, whether a re-extraction took place, and the result
RunCommandPath(win, o1, o2, recovery_ok) ==
    IF o1.kind # "timeout" /\ o1.code = WINDOWS_DLL_NOT_FOUND /\ win
    THEN IF recovery_ok
         THEN [outcomes |-> <<o1, o2>>,
               events |-> <<"spawn qemu-img convert", "extract", "spawn qemu-img convert">>,
               result |-> ToolResult(o2, "QEMU command timed out")]
         ELSE [outcomes |-> <<o1>>,
               events |-> <<"spawn qemu-img convert", "extract">>,
               result |-> [failure |-> "extraction_failure",
                           error |-> <<"Failed to run QEMU command">>]]
    ELSE [outcomes |-> <<o1>>,
          events |-> <<"spawn qemu-img convert">>,
          result |-> ToolResult(o1, "QEMU command timed out")]

\* create_image through _run_command_with_progress: one process, no
\* re-extraction
ProgressPath(o) ==
    [outcomes |-> <<o>>,
     events |-> <<"spawn qemu-img convert">>,
     result |-> ToolResult(o, "QEMU imaging process timed out")]

\* the byte counts _run_command_with_progress passes to the callback before
\* it returns: what the monitor saw, then the size of the output file
ProgressReports(o, seen) ==
    seen \o (IF o.kind = "exit" /\ o.code = EXIT_SUCCESS /\ o.file
             THEN <<o.size>> ELSE << >>)

\* line 80: which of the two imaging methods run_imaging_job chooses
ImagingMethod(in) ==
    IF in.use_sparse /\ ValidatedFormat(in.image_format) \in SPARSE_FORMATS
    THEN "_run_qemu_imaging"
    ELSE "_run_direct_imaging"

\* the sparse argument create_image receives: _run_qemu_imaging passes
\* sparse=True (line 167), and _run_direct_imaging hands the job to
\* _run_qemu_imaging (line 198)
SparseArgument(method) ==
    CASE method = "_run_qemu_imaging" -> TRUE
      [] method = "_run_direct_imaging" -> TRUE

\* lines 79-105, _run_qemu_imaging / _run_direct_imaging (which delegates to
\* it) and create_image
JobImage ==
    /\ job_pc = "create"
    /\ IF Rejected(job_in.source_path)
       THEN /\ JobImagingFailed("invalid_input", <<"Path contains potentially dangerous character">>)
            /\ UNCHANGED <<job_events, job_outcomes, job_reported, job_cmd>>
       ELSE /\ job_cmd' = BuildCommand(is_windows, SparseArgument(ImagingMethod(job_in)),
                                       ValidatedFormat(job_in.image_format),
                                       job_in.use_compress, job_in.source_path,
                                       job_in.output_path)
            /\ \E o1, o2 \in ToolOutcomes(is_windows), recovery_ok \in BOOLEAN,
                  seen \in {<< >>, <<MaxSize>>} :
                 LET r == IF job_in.progress_callback THEN ProgressPath(o1)
                          ELSE RunCommandPath(is_windows, o1, o2, recovery_ok)
                 IN  /\ job_outcomes' = r.outcomes
                     /\ job_events' = job_events \o r.events
                     /\ job_reported' = (IF job_in.progress_callback
                                         THEN ProgressReports(o1, seen) ELSE << >>)
                     /\ IF r.result.failure = "none"
                        THEN JobImaged /\ UNCHANGED <<job_failure, job_error>>
                        ELSE JobImagingFailed(r.result.failure, r.result.error)
    /\ UNCHANGED <<job_in, jobOthers>>

\* lines 107-123: create_archive is called and returns a tuple, or raises
JobArchive ==
    /\ job_pc = "archive"
    /\ job_events' = Append(job_events, "create_archive")
    /\ \E o \in {"created", "failed", "ArchiveError", "OSError"} :
         CASE o = "created" ->
                /\ JobFinish(JobRes("returned", TRUE, "imaging_and_archiving_completed"))
                /\ UNCHANGED job_failure
           [] o = "failed" ->
                /\ JobFinish(JobRes("returned", FALSE, "archiving_failed"))
                /\ job_failure' = "archiving_failure"
           [] OTHER ->
                /\ JobFinish(JobHandle(o))
                /\ job_failure' = (IF o = "ArchiveError" THEN "archiving_failure"
                                   ELSE "unexpected_exception")
    /\ UNCHANGED <<job_in, job_outcomes, job_error, job_reported, job_cmd, jobOthers>>

InitJob ==
    /\ job_in \in [disk_info : {"valid", "not_a_dict", "missing_key", "empty_device_id"},
                   source_path : {"clean", "rejected_char"},
                   output_path : {"valid", "empty", "not_a_string", "invalid_chars"},
                   image_format : {"RawLabel", "img", "qcow2", "bogus"},
                   use_sparse : BOOLEAN,
                   use_compress : BOOLEAN,
                   archive_after : BOOLEAN,
                   archive_type : {"None", "zip", "rar"},
                   buffer_size : {"None", "valid", "zero", "not_a_number"},
                   progress_callback : BOOLEAN]
    /\ job_in.disk_info # "valid" => job_in.source_path = "clean"
    /\ job_pc = "idle"
    /\ job_failure = "none"
    /\ job_result = NoJobResult
    /\ job_events = << >>
    /\ job_outcomes = << >>
    /\ job_error = << >>
    /\ job_reported = << >>
    /\ job_cmd = << >>
    /\ tools = {}
    /\ qemu_dir = {}
    /\ sevenzip_local = FALSE
    /\ sevenzip_system = FALSE
    /\ is_windows \in BOOLEAN
    /\ system_qemu = FALSE
    /\ IdleLocator
    /\ IdleResolver
    /\ IdleRunner
    /\ IdleProgress
    /\ IdleCopy
    /\ IdleArchive
    /\ IdleImage
    /\ IdleThread
    /\ IdleInstaller
    /\ IdleZip
    /\ IdleCommand

NextJob ==
    \/ JobCall
    \/ JobValidate
    \/ JobInitialize
    \/ JobImage
    \/ JobArchive

SpecJob == InitJob /\ [][NextJob]_vars

----------------------------------------------------------------------------
(* Claims on the imaging job *)

\* C10: run_imaging_job never raises to its caller; when a failure occurred
\* during the call (invalid input, tool not found, extraction failure,
\* non-zero exit, timeout, archiving failure, unexpected exception) it
\* returns a tuple whose first element is False and whose second element is
\* a message.
C10_JobNeverRaises ==
    job_pc = "done" =>
        /\ job_result.status = "returned"
        /\ job_failure # "none" =>
              (job_result.success = FALSE /\ job_result.message # "")

\* a call has ended after an exception that none of the specific handlers
\* takes
C10_Witness ==
    /\ job_pc = "done"
    /\ job_failure = "unexpected_exception"
    /\ job_result = JobRes("returned", FALSE, "unexpected_error")

\* a parameter of the job is invalid
InvalidParameter(in) ==
    \/ ValidationOutcome(in) # "none"
    \/ Rejected(in.source_path)

\* C11: when a parameter of the job is invalid (disk info, output path,
\* image format, archive format, buffer size, or a source path with a
\* rejected character), run_imaging_job returns a failure and has neither
\* attempted a tool extraction nor spawned a subprocess.
C11_ValidationBeforeSubprocess ==
    (job_pc = "done" /\ InvalidParameter(job_in)) =>
        /\ job_result.status = "returned"
        /\ job_result.success = FALSE
        /\ job_events = << >>

\* the tool stub of the scenario: exit code 1 and stderr "disk full"
DiskFull == ToolOutcome("exit", EXIT_FAILURE, "disk full", TRUE, 0)

\* every qemu-img convert process of the job ended as o, and there was one
ToolAlways(o) ==
    /\ job_outcomes # << >>
    /\ \A i \in 1..Len(job_outcomes) : job_outcomes[i] = o

\* C12: a qcow2 job with compress=true whose tool process exits with code 1
\* and stderr "disk full" returns success=false with an error message that
\* contains "disk full", with and without a progress callback.
C12_DiskFullReported ==
    (/\ job_pc = "done"
     /\ job_in.image_format = "qcow2"
     /\ job_in.use_compress
     /\ ToolAlways(DiskFull)) =>
        /\ job_result.status = "returned"
        /\ job_result.success = FALSE
        /\ job_result.message = "imaging_failed"
        /\ "disk full" \in Range(job_error)

C12_Witness ==
    /\ job_pc = "done"
    /\ job_in.image_format = "qcow2"
    /\ job_in.use_compress
    /\ job_in.progress_callback
    /\ "-c" \in Range(job_cmd)
    /\ ToolAlways(DiskFull)
    /\ "disk full" \in Range(job_error)

\* the same case through run_command, without a progress callback
C12_ReachedWithoutCallback ==
    /\ job_pc = "done"
    /\ job_in.image_format = "qcow2"
    /\ job_in.use_compress
    /\ ~job_in.progress_callback
    /\ ToolAlways(DiskFull)
    /\ "disk full" \in Range(job_error)

\* the tool stub of the scenario: exit code 0 after writing a file of
\* MaxSize bytes
WroteFile == ToolOutcome("exit", EXIT_SUCCESS, "", TRUE, MaxSize)

\* C13: a sparse, compressed qcow2 job whose tool process exits with code 0
\* after writing an output file returns success=true and reports a number
\* of bytes processed equal to the size of that file.
C13_BytesProcessedReported ==
    (/\ job_pc = "done"
     /\ job_in.image_format = "qcow2"
     /\ job_in.use_sparse
     /\ job_in.use_compress
     /\ ~job_in.archive_after
     /\ ToolAlways(WroteFile)) =>
        /\ job_result.success = TRUE
        /\ job_reported # << >>
        /\ job_reported[Len(job_reported)] = MaxSize

\* what holds of the scenario when the caller supplies a progress callback
C13_ReportedThroughCallback ==
    (/\ job_pc = "done"
     /\ job_in.image_format = "qcow2"
     /\ job_in.use_sparse
     /\ job_in.use_compress
     /\ ~job_in.archive_after
     /\ job_in.progress_callback
     /\ ToolAlways(WroteFile)) =>
        /\ job_result.success = TRUE
        /\ MaxSize \in Range(job_reported)

\* C14: the result of a tool invocation tells a subprocess killed by the
\* caller from one that timed out and from one that exited by itself with a
\* non-zero code; a kill is not reported as an error of the tool.
C14_KillDistinguished ==
    (/\ job_pc = "done"
     /\ Len(job_outcomes) = 1
     /\ job_outcomes[1].kind = "killed") =>
        /\ job_failure \notin {"non_zero_exit", "timeout"}
        /\ "qemu-img failed (code " \notin Range(job_error)

\* the part of the distinction the code does make: a timeout is never
\* reported with the text of an exit-code failure
TimeoutDistinctFromExit ==
    (/\ job_pc = "done"
     /\ Len(job_outcomes) = 1
     /\ job_outcomes[1].kind = "timeout") =>
        /\ job_failure = "timeout"
        /\ "qemu-img failed (code " \notin Range(job_error)

\* C17: when sparse is not requested run_imaging_job copies the blocks
\* itself: it spawns no qemu-img convert, and in particular none with the
\* sparse-block-size hint -S.
C17_DirectCopyWhenNotSparse ==
    (job_pc = "done" /\ ~job_in.use_sparse) =>
        /\ "spawn qemu-img convert" \notin Range(job_events)
        /\ "-S" \notin Range(job_cmd)

\* the half of the decision the code does make: a sparse job in a
\* sparse-capable format is handed to qemu-img with the hint
SparseDelegated ==
    (/\ job_pc = "done"
     /\ job_cmd # << >>
     /\ job_in.use_sparse
     /\ ValidatedFormat(job_in.image_format) \in SPARSE_FORMATS) =>
        /\ "-S" \in Range(job_cmd)
        /\ "spawn qemu-img convert" \in Range(job_events)

\* the imaging returned success: the last qemu-img process of the job ended
\* with exit code 0
ImagingReturnedSuccess ==
    /\ job_outcomes # << >>
    /\ job_outcomes[Len(job_outcomes)].kind = "exit"
    /\ job_outcomes[Len(job_outcomes)].code = EXIT_SUCCESS

\* C32: the archive step is invoked only after the imaging has returned
\* success; when the imaging fails no archive is created, the archive step
\* does not touch the output, and the job returns the imaging failure.
C32_ArchiveOnlyAfterImagingSuccess ==
    /\ job_pc = "archive" => ImagingReturnedSuccess
    /\ "create_archive" \in Range(job_events) => ImagingReturnedSuccess
    /\ (/\ job_pc = "done"
        /\ ValidationOutcome(job_in) = "none"
        /\ ~ImagingReturnedSuccess) =>
          /\ "create_archive" \notin Range(job_events)
          /\ job_result = JobRes("returned", FALSE, "imaging_failed")

\* a job that asked for a zip archive has ended with the failure of the
\* imaging
C32_Witness ==
    /\ job_pc = "done"
    /\ job_in.archive_after
    /\ job_in.archive_type = "zip"
    /\ job_failure = "timeout"
    /\ job_result = JobRes("returned", FALSE, "imaging_failed")
    /\ "create_archive" \notin Range(job_events)

\* C20: every qemu-img invocation of create_image that ends with the
\* missing-dependency code on Windows is followed by a re-extraction and,
\* if that succeeds, by one re-run; also when a progress callback is given.
C20_RecoveryOnEveryInvocation ==
    (/\ job_pc = "done"
     /\ is_windows
     /\ job_outcomes # << >>
     /\ job_outcomes[1].kind = "exit"
     /\ job_outcomes[1].code = WINDOWS_DLL_NOT_FOUND) =>
        \/ Len(job_outcomes) = 2
        \/ job_failure = "extraction_failure"

\* the protocol as run_command applies it, without a progress callback
RecoveryThroughRunCommand ==
    (/\ job_pc = "done"
     /\ is_windows
     /\ ~job_in.progress_callback
     /\ job_outcomes # << >>
     /\ job_outcomes[1].kind = "exit"
     /\ job_outcomes[1].code = WINDOWS_DLL_NOT_FOUND) =>
        \/ Len(job_outcomes) = 2
        \/ job_failure = "extraction_failure"

\* every file the resolver requires is in the install directory
AllRequiredPresent ==
    \A f \in Range(Required(res_variant)) : Exists(qemu_dir, f)

\* thread t's readiness check runs in this step
Checking(t) == pc[t] = "check" /\ pc'[t] # "check"

\* C16: when every required file is present, the resolver returns success
\* without locating or extracting an archive and leaves the install
\* directory (and the tools directory) as it was; since such a call changes
\* nothing, any number of calls in succession has the effect of one.
C16_ReadyReturnsImmediately ==
    [][\A t \in Threads :
         (BundledPath /\ AllRequiredPresent /\ Checking(t)) =>
             /\ pc'[t] = "done"
             /\ res_result'[t] = Ok
             /\ res_archive'[t] = NoArchive
             /\ fsVars' = fsVars]_vars

\* two calls have run one after the other on a ready install directory,
\* both returned success and neither located an archive
C16_Witness ==
    /\ BundledPath
    /\ AllRequiredPresent
    /\ \A t \in Threads :
         /\ pc[t] = "done"
         /\ res_result[t] = Ok
         /\ res_archive[t] = NoArchive

\* C25: readiness is computed from the file system at every resolution: a
\* call that finds a required file missing, also one deleted out-of-band
\* after an earlier call succeeded, goes on to extract or fails; the result
\* of an earlier call is never reused.
C25_ReadinessRecomputed ==
    [][\A t \in Threads :
         (BundledPath /\ ~AllRequiredPresent /\ Checking(t)) =>
             \/ pc'[t] = "extracting"
             \/ pc'[t] = "done" /\ res_result'[t].status = "error"]_vars

\* one call found the tool ready and returned success; a required file was
\* deleted after it; the next call has found the tool not ready and is
\* extracting
C25_Witness ==
    /\ BundledPath
    /\ pc["T1"] = "done"
    /\ res_result["T1"] = Ok
    /\ res_archive["T1"] = NoArchive
    /\ pc["T2"] = "extracting"
    /\ ~AllRequiredPresent

----------------------------------------------------------------------------
(* create_disk_image as a whole: the branch for Windows physical drives,   *)
(* the copy into raw_path, the conversion or compression, and the handler  *)
(* that turns exceptions into a message.  The bytes copied are the subject *)
(* of the direct-copy loop above; here only the files and the errors count.*)

\* the most chunks a copy takes
MaxChunks == 2

\* str.replace(a, b) for single characters
ReplaceChar(s, a, b) == [i \in 1..Len(s) |-> IF s[i] = a THEN b ELSE s[i]]

\* device paths: \\.\PhysicalDrive1 as Windows names it, the same with a
\* single leading backslash, and a Unix device
D_PhysicalDrive ==
    <<"\\", "\\", ".", "\\", "P", "h", "y", "s", "i", "c", "a", "l",
      "D", "r", "i", "v", "e", "1">>
D_SingleBackslash ==
    <<"\\", ".", "\\", "P", "h", "y", "s", "i", "c", "a", "l",
      "D", "r", "i", "v", "e", "1">>
D_dev_sdb == <<"/", "d", "e", "v", "/", "s", "d", "b">>

\* disk_ops.py line 55: the Python literal '\\.\\physicaldrive'
PHYSICAL_PREFIX ==
    <<"\\", ".", "\\", "p", "h", "y", "s", "i", "c", "a", "l",
      "d", "r", "i", "v", "e">>

\* disk_ops.py lines 53-55
IsPhysical(win, device_path) ==
    LET norm_path == Lower(ReplaceChar(device_path, "/", "\\"))
    IN  win /\ StartsWith(norm_path, PHYSICAL_PREFIX)

\* the files of a call
P_output == <<"o", "u", "t">>
P_tmp_raw == P_output \o <<".", "t", "m", "p", ".", "r", "a", "w">>
P_gz == P_output \o <<".", "g", "z">>

\* the formats written as they are read
RAW_FORMATS == {"img", "iso"}

\* raw_path: output_path, or output_path + '.tmp.raw' for a format that
\* needs a conversion
RawPath(image_format) ==
    IF image_format \notin RAW_FORMATS THEN P_tmp_raw ELSE P_output

\* the file-system errors open(), read() and write() raise: path not found,
\* permission denied, device busy
FilesystemErrors == {"FileNotFoundError", "PermissionError", "OSError"}

\* the text before the file name in str(e) of an OSError
StrErrorText(type) ==
    CASE type = "FileNotFoundError" -> "[Errno 2] No such file or directory: "
      [] type = "PermissionError" -> "[Errno 13] Permission denied: "
      [] type = "OSError" -> "[Errno 16] Device or resource busy: "
      [] OTHER -> type

\* str(e)
StrError(e) == <<StrErrorText(e.type)>> \o (IF e.path = << >> THEN << >> ELSE <<e.path>>)

\* disk_ops.py lines 136-137
HintMessage(device_path) ==
    <<"Could not open ", device_path,
      ". The device may not exist, is in use, or requires administrator privileges. ",
      "Check that the disk is present and not locked by another process.">>

\* the except clause: disk_ops.py lines 133-139, backend.py lines 118-119
ExceptionMessage(variant, e, win, device_path) ==
    IF /\ variant = "disk_ops"
       /\ e.type = "FileNotFoundError"
       /\ (~win \/ ~IsPhysical(win, device_path))
    THEN HintMessage(device_path)
    ELSE StrError(e)

\* the call returns
ImgFinish(r) ==
    /\ img_pc' = "done"
    /\ img_result' = r

\* exception e is raised inside the try block and handled
ImgHandle(e) ==
    /\ img_raised' = e
    /\ ImgFinish(ImgRes("returned", FALSE,
                        ExceptionMessage(img_variant, e, is_windows, img_in.device_path)))

\* create_disk_image is called; disk_ops.py sends a Windows physical drive
\* to qemu-img (line 57), everything else to the copy
ImgCall ==
    /\ img_pc = "idle"
    /\ img_pc' = IF img_variant = "disk_ops" /\ IsPhysical(is_windows, img_in.device_path)
                 THEN "physical" ELSE "open"
    /\ UNCHANGED <<img_variant, img_in, img_files, img_tmp_created, img_chunks,
                   img_raised, img_result, img_output, img_convert,
                   fsVars, imgOthers>>

\* disk_ops.py lines 57-88: qemu-img reads the drive itself; the calls are
\* outside the try block, so an exception leaves create_disk_image
ImgPhysical ==
    /\ img_pc = "physical"
    /\ \E o \in {"ok", "failed", "raised"} :
         CASE o = "ok" ->
                /\ img_files' = img_files \cup {P_output}
                /\ img_output' = "image"
                /\ ImgFinish(ImgRes("returned", TRUE, << >>))
                /\ UNCHANGED img_raised
           [] o = "failed" ->
                /\ ImgFinish(ImgRes("returned", FALSE, <<"qemu-img failed">>))
                /\ UNCHANGED <<img_files, img_raised, img_output>>
           [] o = "raised" ->
                /\ img_raised' = ImgError("ImportError", << >>, "physical")
                /\ ImgFinish(ImgRes("raised", FALSE, << >>))
                /\ UNCHANGED <<img_files, img_output>>
    /\ UNCHANGED <<img_variant, img_in, img_tmp_created, img_chunks, img_convert,
                   fsVars, imgOthers>>

\* line 98: open(device_path, 'rb') and then open(raw_path, 'wb'), which
\* creates the file
ImgOpen ==
    /\ img_pc = "open"
    /\ \/ \E type \in FilesystemErrors :
            /\ ImgHandle(ImgError(type, img_in.device_path, "open_source"))
            /\ UNCHANGED <<img_files, img_tmp_created, img_output>>
       \/ \E type \in FilesystemErrors :
            /\ ImgHandle(ImgError(type, RawPath(img_in.image_format), "open_dest"))
            /\ UNCHANGED <<img_files, img_tmp_created, img_output>>
       \/ /\ img_files' = img_files \cup {RawPath(img_in.image_format)}
          /\ img_tmp_created' = (RawPath(img_in.image_format) = P_tmp_raw)
          /\ img_output' = IF RawPath(img_in.image_format) = P_output
                           THEN "raw" ELSE img_output
          /\ img_pc' = "copy"
          /\ UNCHANGED <<img_raised, img_result>>
    /\ UNCHANGED <<img_variant, img_in, img_chunks, img_convert, fsVars, imgOthers>>

\* lines 99-110: one pass of the loop: a chunk is copied, the source is at
\* its end, or read() / write() raises
ImgCopy ==
    /\ img_pc = "copy"
    /\ \/ /\ img_chunks < MaxChunks
          /\ img_chunks' = img_chunks + 1
          /\ UNCHANGED <<img_pc, img_raised, img_result>>
       \/ /\ img_pc' = "convert"
          /\ UNCHANGED <<img_chunks, img_raised, img_result>>
       \/ \E type \in {"PermissionError", "OSError"} :
            \E path \in {img_in.device_path, RawPath(img_in.image_format)} :
               /\ ImgHandle(ImgError(type, path, "copy"))
               /\ UNCHANGED img_chunks
    /\ UNCHANGED <<img_variant, img_in, img_files, img_tmp_created, img_output,
                   img_convert, fsVars, imgOthers>>

\* how the conversion of the raw file can end.  backend.py calls
\* convert_image_format, which catches every exception itself.  disk_ops.py
\* imports create_disk_image_sparse from backend.qemu_utils, which defines
\* no such function in this tree, so the import raises; a function of that
\* name could return either tuple or raise.
ConversionOutcomes(variant) ==
    IF variant = "backend" THEN {"ok", "failed"} ELSE {"ok", "failed", "raised"}

\* what the conversion is called with: backend.py line 102,
\* convert_image_format(raw_path, output_path, ...); disk_ops.py line 116,
\* create_disk_image_sparse(disk_info, output_path, ...), which is given the
\* device and not raw_path
ConvertArguments(variant, device_path) ==
    IF variant = "backend" THEN [src |-> P_tmp_raw, dst |-> P_output]
    ELSE [src |-> device_path, dst |-> P_output]

\* how the gzip of a raw image can end: gzip.open() or copyfileobj raises,
\* os.remove(raw_path) raises, os.rename(gz_path, output_path) raises, or
\* none does
GzipOutcomes == {"ok", "compress", "remove", "rename"}

\* disk_ops.py lines 120-131: what the gzip of a raw image leaves behind;
\* partial: the failed compression left an incomplete file at gz_path
GzipFiles(files, o, partial) ==
    CASE o = "ok" -> files
      [] o = "compress" -> IF partial THEN files \cup {P_gz} ELSE files
      [] o = "remove" -> files \cup {P_gz}
      [] o = "rename" -> (files \ {P_output}) \cup {P_gz}

\* the same, for what output_path holds
GzipOutput(output, o) ==
    CASE o = "ok" -> "gz"
      [] o = "rename" -> "none"
      [] OTHER -> output

\* lines 112-131: conversion of the temporary raw file, or gzip of a raw
\* image, and the removal of raw_path
ImgConvert ==
    /\ img_pc = "convert"
    /\ IF img_in.image_format \notin RAW_FORMATS
       THEN \E o \in ConversionOutcomes(img_variant) :
              /\ img_convert' = IF o = "raised" THEN img_convert
                                ELSE ConvertArguments(img_variant, img_in.device_path)
              /\ CASE o = "ok" ->
                     /\ img_files' = (img_files \cup {P_output}) \ {P_tmp_raw}
                     /\ img_output' = "image"
                     /\ ImgFinish(ImgRes("returned", TRUE, << >>))
                     /\ UNCHANGED img_raised
                [] o = "failed" ->
                     /\ img_files' = img_files \ {P_tmp_raw}
                     /\ ImgFinish(ImgRes("returned", FALSE, <<"conversion failed">>))
                     /\ UNCHANGED <<img_raised, img_output>>
                [] o = "raised" ->
                     /\ ImgHandle(ImgError("ImportError", << >>, "convert"))
                     /\ UNCHANGED <<img_files, img_output>>
       ELSE IF img_in.compress
       THEN \E o \in GzipOutcomes, partial \in BOOLEAN :
              /\ UNCHANGED img_convert
              /\ img_files' = GzipFiles(img_files, o, partial)
              /\ img_output' = GzipOutput(img_output, o)
              /\ IF o = "ok"
                 THEN /\ ImgFinish(ImgRes("returned", TRUE, << >>))
                      /\ UNCHANGED img_raised
                 ELSE LET e == ImgError("OSError",
                                        IF o = "remove" THEN P_output ELSE P_gz, o)
                      IN  /\ img_raised' = e
                          /\ ImgFinish(ImgRes("returned", FALSE,
                                              <<"Compression failed: ">> \o StrError(e)))
       ELSE /\ ImgFinish(ImgRes("returned", TRUE, << >>))
            /\ UNCHANGED <<img_files, img_raised, img_output, img_convert>>
    /\ UNCHANGED <<img_variant, img_in, img_tmp_created, img_chunks, fsVars, imgOthers>>

InitImage ==
    /\ img_variant \in {"disk_ops", "backend"}
    /\ img_in \in [device_path : {D_PhysicalDrive, D_SingleBackslash, D_dev_sdb},
                   image_format : {"img", "iso", "qcow2", "vhd", "vmdk"},
                   compress : BOOLEAN]
    /\ img_pc = "idle"
    /\ img_files = {}
    /\ img_tmp_created = FALSE
    /\ img_chunks = 0
    /\ img_raised = NoImgError
    /\ img_result = NoImgResult
    /\ img_output = "none"
    /\ img_convert = NoConvert
    /\ tools = {}
    /\ qemu_dir = {}
    /\ sevenzip_local = FALSE
    /\ sevenzip_system = FALSE
    /\ is_windows \in BOOLEAN
    /\ system_qemu = FALSE
    /\ IdleLocator
    /\ IdleResolver
    /\ IdleRunner
    /\ IdleProgress
    /\ IdleCopy
    /\ IdleArchive
    /\ IdleJob
    /\ IdleThread
    /\ IdleInstaller
    /\ IdleZip
    /\ IdleCommand

NextImage ==
    \/ ImgCall
    \/ ImgPhysical
    \/ ImgOpen
    \/ ImgCopy
    \/ ImgConvert

SpecImage == InitImage /\ [][NextImage]_vars

\* C15: for a format that needs a conversion, whenever create_disk_image
\* returns after it created the temporary raw file, that file no longer
\* exists, whether the conversion succeeded, failed or raised.
C15_TemporaryFileRemoved ==
    (/\ img_pc = "done"
     /\ img_in.image_format \notin RAW_FORMATS
     /\ img_tmp_created) =>
        P_tmp_raw \notin img_files

\* what the code does ensure: the temporary file is gone whenever the
\* conversion returned, with success or with a failure
TemporaryFileRemovedUnlessRaised ==
    (/\ img_pc = "done"
     /\ img_tmp_created
     /\ img_raised = NoImgError) =>
        P_tmp_raw \notin img_files

BackendConvertsTemporaryFile ==
    (img_variant = "backend" /\ img_convert # NoConvert) =>
        (img_convert.src = P_tmp_raw /\ img_convert.dst = P_output)

\* the gzip of a raw image was asked for and did not go through
GzipFailed ==
    /\ img_pc = "done"
    /\ img_in.image_format \in RAW_FORMATS
    /\ img_in.compress
    /\ img_raised.at \in GzipOutcomes

\* C27: the compressed data replaces the output path only if the compression
\* succeeded; on any failure of the compression or of the replacement the
\* uncompressed image is still present and unchanged at the output path.
C27_OriginalKeptOnFailure ==
    /\ img_output = "gz" => (img_pc = "done" /\ img_result.success)
    /\ GzipFailed => (P_output \in img_files /\ img_output = "raw")

\* what the code does ensure: the uncompressed image stays unless the
\* rename, which follows the removal of the image, is what failed
OriginalKeptUnlessRenameFails ==
    (GzipFailed /\ img_raised.at # "rename") =>
        (P_output \in img_files /\ img_output = "raw")

\* C18: every file-system error raised while the source or the destination
\* is opened or copied gives a failure whose message names the offending
\* path and holds the hint, not the text of the OS error.
C18_FilesystemErrorsTranslated ==
    (/\ img_pc = "done"
     /\ img_raised.type \in FilesystemErrors
     /\ img_raised.at \in {"open_source", "open_dest", "copy"}) =>
        /\ img_result.status = "returned"
        /\ img_result.success = FALSE
        /\ img_result.message = HintMessage(img_raised.path)

\* what disk_ops.py does translate: the source that is not found
MissingSourceTranslated ==
    (/\ img_pc = "done"
     /\ img_variant = "disk_ops"
     /\ img_raised = ImgError("FileNotFoundError", img_in.device_path, "open_source")) =>
        img_result = ImgRes("returned", FALSE, HintMessage(img_in.device_path))

----------------------------------------------------------------------------
(* ImagingThread.run (gui/pyqt_app.py): the job runs inside a try block,   *)
(* the finished and the log signal are emitted after it, and the except    *)
(* clause emits both again.                                                *)

\* the most progress_callback invocations of a run, the largest byte count
\* and the largest disk size
MaxProgress == 2
MaxBytes == 2
MaxTotal == 2

\* lines 53-55: percent = (bytes_read / total_size) * 100, capped at 100
Percent(bytes, total) == Min((bytes * 100) \div total, 100)

\* the messages run_imaging_job returns with each value of success
JobMessages(success) ==
    IF success THEN {"Imaging completed successfully"}
    ELSE {"Invalid input", "Imaging failed", "Unexpected error"}

\* QThread.start() calls run()
ThrStart ==
    /\ thr_pc = "idle"
    /\ thr_pc' = "job"
    /\ UNCHANGED <<thr_total, thr_job, thr_progress, thr_finished, thr_logs,
                   thr_raised, thrOthers>>

\* lines 51-55: the job invokes progress_callback
ThrProgress ==
    /\ thr_pc = "job"
    /\ Len(thr_progress) < MaxProgress
    /\ thr_total > 0
    /\ \E bytes \in 0..MaxBytes :
         thr_progress' = Append(thr_progress, Percent(bytes, thr_total))
    /\ UNCHANGED <<thr_pc, thr_total, thr_job, thr_finished, thr_logs, thr_raised,
                   thrOthers>>

\* lines 57-68: run_imaging_job returns its tuple
ThrJobReturns ==
    /\ thr_pc = "job"
    /\ \E success \in BOOLEAN : \E message \in JobMessages(success) :
         thr_job' = [success |-> success, message |-> message]
    /\ thr_pc' = "emit_finished"
    /\ UNCHANGED <<thr_total, thr_progress, thr_finished, thr_logs, thr_raised,
                   thrOthers>>

\* lines 57-68: the call, or the unpacking of what it returned, raises
ThrJobRaises ==
    /\ thr_pc = "job"
    /\ thr_raised' = Append(thr_raised, "run_imaging_job")
    /\ thr_pc' = "except"
    /\ UNCHANGED <<thr_total, thr_job, thr_progress, thr_finished, thr_logs,
                   thrOthers>>

\* line 70: self.finished.emit(success, message), or the call raises
ThrEmitFinished ==
    /\ thr_pc = "emit_finished"
    /\ \/ /\ thr_finished' = Append(thr_finished, thr_job)
          /\ thr_pc' = "emit_log"
          /\ UNCHANGED thr_raised
       \/ /\ thr_raised' = Append(thr_raised, "finished.emit")
          /\ thr_pc' = "except"
          /\ UNCHANGED thr_finished
    /\ UNCHANGED <<thr_total, thr_job, thr_progress, thr_logs, thrOthers>>

\* line 71: self.log.emit(log_output), or the call raises
ThrEmitLog ==
    /\ thr_pc = "emit_log"
    /\ \/ /\ thr_logs' = thr_logs + 1
          /\ thr_pc' = "done"
          /\ UNCHANGED thr_raised
       \/ /\ thr_raised' = Append(thr_raised, "log.emit")
          /\ thr_pc' = "except"
          /\ UNCHANGED thr_logs
    /\ UNCHANGED <<thr_total, thr_job, thr_progress, thr_finished, thrOthers>>

\* lines 73-77: except Exception: self.finished.emit(False, error_msg); an
\* exception raised here leaves run()
ThrExcept ==
    /\ thr_pc = "except"
    /\ \/ /\ thr_finished' = Append(thr_finished,
                                    [success |-> FALSE,
                                     message |-> "Imaging failed with exception"])
          /\ thr_pc' = "except_log"
          /\ UNCHANGED thr_raised
       \/ /\ thr_raised' = Append(thr_raised, "except: finished.emit")
          /\ thr_pc' = "done"
          /\ UNCHANGED thr_finished
    /\ UNCHANGED <<thr_total, thr_job, thr_progress, thr_logs, thrOthers>>

\* line 78: self.log.emit(traceback.format_exc())
ThrExceptLog ==
    /\ thr_pc = "except_log"
    /\ \/ /\ thr_logs' = thr_logs + 1
          /\ UNCHANGED thr_raised
       \/ /\ thr_raised' = Append(thr_raised, "except: log.emit")
          /\ UNCHANGED thr_logs
    /\ thr_pc' = "done"
    /\ UNCHANGED <<thr_total, thr_job, thr_progress, thr_finished, thrOthers>>

InitThread ==
    /\ thr_pc = "idle"
    /\ thr_total \in 0..MaxTotal
    /\ thr_job = NoThreadJob
    /\ thr_progress = << >>
    /\ thr_finished = << >>
    /\ thr_logs = 0
    /\ thr_raised = << >>
    /\ IdleFs
    /\ IdleLocator
    /\ IdleResolver
    /\ IdleRunner
    /\ IdleProgress
    /\ IdleCopy
    /\ IdleArchive
    /\ IdleJob
    /\ IdleImage
    /\ IdleInstaller
    /\ IdleZip
    /\ IdleCommand

NextThread ==
    \/ ThrStart
    \/ ThrProgress
    \/ ThrJobReturns
    \/ ThrJobRaises
    \/ ThrEmitFinished
    \/ ThrEmitLog
    \/ ThrExcept
    \/ ThrExceptLog

SpecThread == InitThread /\ [][NextThread]_vars

\* C19: each run of ImagingThread emits the finished signal exactly once,
\* whether the job succeeds, returns a failure, or an exception is raised at
\* any point of run(), also after the first finished emission.
C19_FinishedExactlyOnce ==
    thr_pc = "done" => Len(thr_finished) = 1

\* what the code does ensure: one finished emission whenever no emit()
\* call raises, whatever the job returned or raised
FinishedOnceUnlessEmitRaises ==
    (thr_pc = "done" /\ \A i \in 1..Len(thr_raised) : thr_raised[i] = "run_imaging_job") =>
        Len(thr_finished) = 1

----------------------------------------------------------------------------
(* InstallerExtractor: what is done with an installer .exe found in or     *)
(* downloaded to tools/: find_7z_exe and extract_7z_from_installer         *)
(* (backend/sevenzip_utils.py, reached from init_qemu through              *)
(* extract_qemu), SevenZipManager.initialize and                           *)
(* _try_extract_from_installer (backend/sevenzip_manager.py), and          *)
(* ThirdPartyDownloader._extract_qemu_portable with                        *)
(* _extract_with_subprocess_fallback (backend/thirdparty_downloader.py).   *)
(* Whether a started process succeeds is the environment's choice.         *)

InstVariants == {"sevenzip_utils", "sevenzip_manager", "thirdparty_downloader"}

\* thirdparty_downloader.py line 314 and sevenzip_utils.py line 75: the flags
\* the installer is started with, in the order they are tried
SilentFlags(variant) ==
    IF variant = "thirdparty_downloader"
    THEN <<"/VERYSILENT /DIR=", "/S /D=", "/SILENT /DIR=">>
    ELSE <<"/S /D=">>

\* SevenZipManager._check_system_7zip: `7z` is started and must return 0
\* within ten seconds
CheckSystem7zip(system, answered) == system /\ answered

\* the archivers on the machine when a process is started
ArchiversNow == [local |-> inst_local, system |-> inst_env.system]

InstFinish(result) ==
    /\ inst_result' = result
    /\ inst_pc' = "done"

\* the installer is handed to one of the three entry points
InstCall ==
    /\ inst_pc = "idle"
    /\ inst_local' = inst_env.local
    /\ inst_pc' = IF inst_variant = "thirdparty_downloader" THEN "py7zr" ELSE "find"
    /\ UNCHANGED <<inst_variant, inst_env, inst_flag, inst_runs, inst_launched,
                   inst_result, instOthers>>

\* sevenzip_utils.find_7z_exe, lines 11-37, up to the call of
\* extract_7z_from_installer
InstFind7zExe ==
    /\ inst_variant = "sevenzip_utils"
    /\ inst_pc = "find"
    /\ IF inst_local THEN InstFinish("local")
       ELSE IF inst_env.installer THEN inst_pc' = "archiver" /\ UNCHANGED inst_result
       ELSE IF inst_env.system THEN InstFinish("system")
       ELSE InstFinish("none")
    /\ UNCHANGED <<inst_variant, inst_env, inst_local, inst_flag, inst_runs,
                   inst_launched, instOthers>>

\* SevenZipManager.initialize, lines 29-30, with is_available and the search
\* for the installer of _try_extract_from_installer, lines 222-224
InstIsAvailable ==
    /\ inst_variant = "sevenzip_manager"
    /\ inst_pc = "find"
    /\ \E answered \in BOOLEAN :
          inst_pc' = IF inst_local \/ CheckSystem7zip(inst_env.system, answered)
                     THEN "verify"
                     ELSE IF inst_env.installer THEN "archiver" ELSE "verify"
    /\ UNCHANGED <<inst_variant, inst_env, inst_local, inst_flag, inst_runs,
                   inst_launched, inst_result, instOthers>>

\* extract_7z_from_installer, lines 57-68, and _try_extract_from_installer,
\* lines 231-243: a system archiver reads the installer as an archive
InstArchiver ==
    /\ inst_pc = "archiver"
    /\ \E answered, ok \in BOOLEAN :
          LET found == IF inst_variant = "sevenzip_manager"
                       THEN CheckSystem7zip(inst_env.system, answered)
                       ELSE inst_env.system
          IN  IF ~found
              THEN /\ inst_pc' = "silent"
                   /\ UNCHANGED <<inst_local, inst_runs, inst_result>>
              ELSE /\ inst_runs' = Append(inst_runs, "7z x")
                   /\ IF ok
                      THEN /\ inst_local' = TRUE
                           /\ IF inst_variant = "sevenzip_manager"
                              THEN inst_pc' = "verify" /\ UNCHANGED inst_result
                              ELSE InstFinish("local")
                      ELSE /\ inst_pc' = "silent"
                           /\ UNCHANGED <<inst_local, inst_result>>
    /\ UNCHANGED <<inst_variant, inst_env, inst_flag, inst_launched, instOthers>>

\* _extract_qemu_portable, lines 232-242
InstPy7zr ==
    /\ inst_pc = "py7zr"
    /\ IF ~inst_env.py7zr
       THEN inst_pc' = "patoolib" /\ UNCHANGED <<inst_runs, inst_result>>
       ELSE /\ inst_runs' = Append(inst_runs, "py7zr")
            /\ \/ InstFinish("extracted")
               \/ inst_pc' = "patoolib" /\ UNCHANGED inst_result
    /\ UNCHANGED <<inst_variant, inst_env, inst_local, inst_flag, inst_launched,
                   instOthers>>

\* _extract_qemu_portable, lines 244-257
InstPatoolib ==
    /\ inst_pc = "patoolib"
    /\ IF ~inst_env.patool
       THEN inst_pc' = "powershell" /\ UNCHANGED <<inst_runs, inst_result>>
       ELSE /\ inst_runs' = Append(inst_runs, "patoolib")
            /\ \/ InstFinish("extracted")
               \/ inst_pc' = "powershell" /\ UNCHANGED inst_result
    /\ UNCHANGED <<inst_variant, inst_env, inst_local, inst_flag, inst_launched,
                   instOthers>>

\* _extract_with_subprocess_fallback, lines 299-310: Expand-Archive
InstPowerShell ==
    /\ inst_pc = "powershell"
    /\ inst_runs' = Append(inst_runs, "powershell")
    /\ \/ InstFinish("extracted")
       \/ inst_pc' = "silent" /\ UNCHANGED inst_result
    /\ UNCHANGED <<inst_variant, inst_env, inst_local, inst_flag, inst_launched,
                   instOthers>>

\* extract_7z_from_installer, lines 69-96, _try_extract_from_installer, lines
\* 245-272, _extract_with_subprocess_fallback, lines 312-339: the installer is
\* started with the silent flags; produced: the files looked for are there
\* afterwards
InstSilent ==
    /\ inst_pc = "silent"
    /\ inst_runs' = Append(inst_runs, SilentFlags(inst_variant)[inst_flag])
    /\ inst_launched' = Append(inst_launched, ArchiversNow)
    /\ \E produced \in BOOLEAN :
          IF produced
          THEN /\ inst_local' = (inst_local \/ inst_variant # "thirdparty_downloader")
               /\ UNCHANGED inst_flag
               /\ IF inst_variant = "sevenzip_manager"
                  THEN inst_pc' = "verify" /\ UNCHANGED inst_result
                  ELSE InstFinish(IF inst_variant = "sevenzip_utils"
                                  THEN "local" ELSE "extracted")
          ELSE /\ UNCHANGED inst_local
               /\ IF inst_flag < Len(SilentFlags(inst_variant))
                  THEN /\ inst_flag' = inst_flag + 1
                       /\ UNCHANGED <<inst_pc, inst_result>>
                  ELSE /\ UNCHANGED inst_flag
                       /\ IF inst_variant = "sevenzip_manager"
                          THEN inst_pc' = "verify" /\ UNCHANGED inst_result
                          ELSE InstFinish(IF inst_variant = "sevenzip_utils"
                                          THEN "none" ELSE "failed")
    /\ UNCHANGED <<inst_variant, inst_env, instOthers>>

\* SevenZipManager.initialize, lines 32-36
InstVerify ==
    /\ inst_pc = "verify"
    /\ \E answered \in BOOLEAN :
          InstFinish(IF inst_local \/ CheckSystem7zip(inst_env.system, answered)
                     THEN "available" ELSE "SevenZipNotFoundError")
    /\ UNCHANGED <<inst_variant, inst_env, inst_local, inst_flag, inst_runs,
                   inst_launched, instOthers>>

InitInstaller ==
    /\ inst_variant \in InstVariants
    /\ inst_env \in [local : BOOLEAN, system : BOOLEAN, installer : BOOLEAN,
                     py7zr : BOOLEAN, patool : BOOLEAN]
    \* the downloader is handed the installer it downloaded; the optional
    \* libraries matter to the downloader only
    /\ IF inst_variant = "thirdparty_downloader"
       THEN inst_env.installer
       ELSE ~inst_env.py7zr /\ ~inst_env.patool
    /\ inst_pc = "idle"
    /\ inst_local = FALSE
    /\ inst_flag = 1
    /\ inst_runs = << >>
    /\ inst_launched = << >>
    /\ inst_result = "none"
    /\ IdleFs
    /\ IdleLocator
    /\ IdleResolver
    /\ IdleRunner
    /\ IdleProgress
    /\ IdleCopy
    /\ IdleArchive
    /\ IdleJob
    /\ IdleImage
    /\ IdleThread
    /\ IdleZip
    /\ IdleCommand

NextInstaller ==
    \/ InstCall
    \/ InstFind7zExe
    \/ InstIsAvailable
    \/ InstArchiver
    \/ InstPy7zr
    \/ InstPatoolib
    \/ InstPowerShell
    \/ InstSilent
    \/ InstVerify

SpecInstaller == InitInstaller /\ [][NextInstaller]_vars

\* find_7z_exe has returned and 7z.exe was in tools/7zip or on PATH when it
\* was called
ReturnedWithArchiverPresent ==
    /\ inst_variant = "sevenzip_utils"
    /\ inst_pc = "done"
    /\ (inst_env.local \/ inst_env.system)

\* C37: find_7z_exe returns an archiver path whenever 7z.exe exists in
\* tools/7zip or on PATH, including when a 7-Zip installer is in the tools
\* directory and extracting from it fails.
C37_ArchiverOnPathIsFound ==
    ReturnedWithArchiverPresent => inst_result \in {"local", "system"}

\* what the code does ensure: the archiver is found when no installer is in
\* the tools directory or 7z.exe is in tools/7zip already
ArchiverFoundWithoutInstaller ==
    (ReturnedWithArchiverPresent /\ (inst_env.local \/ ~inst_env.installer)) =>
        inst_result \in {"local", "system"}


\* C26: an installer .exe is started as a process (silent mode) only when no
\* external archiver is available; whenever an archiver is available the
\* installer is only read by it as an archive and is never executed.
C26_InstallerOnlyWithoutArchiver ==
    \A i \in 1..Len(inst_launched) :
        ~inst_launched[i].local /\ ~inst_launched[i].system

\* what the two 7-Zip entry points do ensure: they start the installer only
\* while tools/7zip/7z.exe is missing
InstallerOnlyWithoutLocalArchiver ==
    inst_variant # "thirdparty_downloader" =>
        \A i \in 1..Len(inst_launched) : ~inst_launched[i].local

----------------------------------------------------------------------------
(* Zip extraction by required file: QemuManager._extract_zip               *)
(* (backend/qemu.py) and extract_qemu_deps (backend/qemu_utils.py) on an   *)
(* arbitrary member listing.  Which of several entries with the fewest     *)
(* separators min() / sorted() returns depends on the order of namelist(). *)

\* the entries an archive of the model may hold
ZipNames ==
    { F_qemu_img, P_q \o F_qemu_img, <<"x">> \o F_qemu_img,
      F_iconv, F_bios, P_q \o F_bios }

ZipRequired(variant) ==
    IF variant = "manager" THEN REQUIRED_QEMU_FILES ELSE LEGACY_REQUIRED_QEMU_FILES

\* the candidates of min(matches, key=lambda x: x.count('/'))
FewestSlashes(matches) ==
    { f \in matches : \A g \in matches : CountSlash(f) <= CountSlash(g) }

\* qemu.py lines 307-316: the entry is extracted and moved with
\* Path.replace(), which raises when the directory of the target is missing
ManagerPlace(dir, best_match, required_file) ==
    LET extracted == PutFile(dir, best_match)
    IN  IF Lower(best_match) = Lower(required_file)
        THEN [dir |-> extracted, raised |-> FALSE]
        ELSE IF ~DirExists(extracted, ParentOf(required_file))
        THEN [dir |-> extracted, raised |-> TRUE]
        ELSE [dir |-> DelFile(DelFile(extracted, best_match), required_file)
                          \cup {required_file},
              raised |-> FALSE]

\* qemu_utils.py lines 77-83: the entry is extracted and moved with
\* shutil.move() after os.makedirs()
LegacyPlace(dir, member, req) ==
    LET extracted == PutFile(dir, member)
    IN  IF member = req
        THEN [dir |-> extracted, raised |-> FALSE]
        ELSE [dir |-> DelFile(DelFile(extracted, member), req) \cup {req},
              raised |-> FALSE]

\* the archive is opened and namelist() is read
ZipOpen ==
    /\ zip_pc = "idle"
    /\ zip_pc' = "loop"
    /\ UNCHANGED <<zip_variant, zip_members, zip_selected, zip_dir, zip_raised,
                   zipOthers>>

\* one pass of the loop over the required files
ZipExtractOne ==
    /\ zip_pc = "loop"
    /\ Len(zip_selected) < Len(ZipRequired(zip_variant))
    /\ LET required_file == ZipRequired(zip_variant)[Len(zip_selected) + 1]
           matches == Matches(zip_members, required_file)
       IN  IF matches = {}
           THEN /\ zip_selected' = Append(zip_selected, << >>)
                /\ UNCHANGED <<zip_dir, zip_raised, zip_pc>>
           ELSE \E best_match \in FewestSlashes(matches) :
                  LET r == IF zip_variant = "manager"
                           THEN ManagerPlace(zip_dir, best_match, required_file)
                           ELSE LegacyPlace(zip_dir, best_match, required_file)
                  IN  /\ zip_selected' = Append(zip_selected, best_match)
                      /\ zip_dir' = r.dir
                      /\ zip_raised' = r.raised
                      /\ zip_pc' = IF r.raised THEN "done" ELSE "loop"
    /\ UNCHANGED <<zip_variant, zip_members, zipOthers>>

\* the loop has ended; extract_qemu_deps ends with _cleanup_qemu_dir
ZipClose ==
    /\ zip_pc = "loop"
    /\ Len(zip_selected) = Len(ZipRequired(zip_variant))
    /\ zip_dir' = IF zip_variant = "legacy" THEN CleanupQemuDir(zip_dir) ELSE zip_dir
    /\ zip_pc' = "done"
    /\ UNCHANGED <<zip_variant, zip_members, zip_selected, zip_raised, zipOthers>>

InitZip ==
    /\ zip_variant \in {"manager", "legacy"}
    /\ zip_members \in SUBSET ZipNames
    /\ zip_pc = "idle"
    /\ zip_selected = << >>
    /\ zip_dir = {}
    /\ zip_raised = FALSE
    /\ IdleFs
    /\ IdleLocator
    /\ IdleResolver
    /\ IdleRunner
    /\ IdleProgress
    /\ IdleCopy
    /\ IdleArchive
    /\ IdleJob
    /\ IdleImage
    /\ IdleThread
    /\ IdleInstaller
    /\ IdleCommand

NextZip ==
    \/ ZipOpen
    \/ ZipExtractOne
    \/ ZipClose

SpecZip == InitZip /\ [][NextZip]_vars

\* C34: for each required file the zip extraction selects, among the entries
\* whose lower-cased name ends with the lower-cased required path, one with
\* the fewest '/'; the selected entry is an entry for that required file (its
\* final path component is the required file's name), and the file ends up
\* at the required path below the install directory.
C34_SelectedEntryIsRequiredFile ==
    \A k \in 1..Len(zip_selected) :
        LET req == ZipRequired(zip_variant)[k]
            sel == zip_selected[k]
        IN  /\ (sel = << >>) = (Matches(zip_members, req) = {})
            /\ sel # << >> =>
                 /\ sel \in FewestSlashes(Matches(zip_members, req))
                 /\ Lower(BaseName(sel)) = Lower(BaseName(req))
                 /\ zip_pc = "done" => Exists(zip_dir, req)

\* what the code does ensure: the selected entry ends with the required path
\* and no matching entry has fewer separators
SelectionHasFewestSeparators ==
    \A k \in 1..Len(zip_selected) :
        LET req == ZipRequired(zip_variant)[k]
            sel == zip_selected[k]
        IN  /\ (sel = << >>) = (Matches(zip_members, req) = {})
            /\ sel # << >> =>
                 /\ EndsWith(Lower(sel), Lower(req))
                 /\ \A g \in Matches(zip_members, req) : CountSlash(sel) <= CountSlash(g)

----------------------------------------------------------------------------
(* The qemu-img convert command lines: QemuManager.create_image             *)
(* (backend/qemu.py), run_qemu_win (backend/qemu_utils.py), the physical    *)
(* drive branch of create_disk_image (backend/disk_ops.py), and             *)
(* convert_image_format and create_disk_image_sparse (backend.py)           *)

\* constants.py line 49
COMPRESSIBLE_FORMATS == {"qcow2", "vmdk"}

\* the values of SUPPORTED_IMAGE_FORMATS, what validate_image_format returns
ImageFormats == {"img", "vhd", "vmdk", "qcow2", "iso"}

CmdVariants ==
    {"create_image", "run_qemu_win", "create_disk_image", "convert_image_format",
     "create_disk_image_sparse"}

\* out_fmt = 'raw' if image_format in ['img', 'iso'] else image_format
OutFmt(image_format) == IF image_format \in {"img", "iso"} THEN "raw" ELSE image_format

\* qemu_utils.py lines 219-224
RunQemuWinCommand(image_format, compress) ==
    <<"convert", "-p", "-O", OutFmt(image_format), "-S", "4096">>
    \o (IF compress /\ OutFmt(image_format) \in {"qcow2", "vmdk"} THEN <<"-c">> ELSE << >>)
    \o <<"src", "out">>

\* disk_ops.py lines 70-74 and backend.py lines 155-163
SparseCommand(image_format, compress) ==
    <<"convert", "-O", OutFmt(image_format), "-S", "4096">>
    \o (IF compress /\ OutFmt(image_format) \in {"qcow2", "vmdk"} THEN <<"-c">> ELSE << >>)
    \o <<"src", "out">>

\* backend.py lines 130-136: other formats are refused before a command is
\* built
ConvertCommand(image_format, compress) ==
    IF image_format \notin {"vhd", "vmdk", "qcow2"} THEN << >>
    ELSE <<"convert", "-f", "raw", "-O", image_format>>
         \o (IF compress /\ image_format \in {"qcow2", "vmdk"} THEN <<"-c">> ELSE << >>)
         \o <<"src", "out">>

\* the builder is called and hands its command to the process runner
CmdBuild ==
    /\ cmd_pc = "idle"
    /\ cmd_pc' = "built"
    /\ cmd_line' =
         CASE cmd_variant = "create_image" ->
                BuildCommand(cmd_in.win, cmd_in.sparse, cmd_in.image_format,
                             cmd_in.compress, "src", "out")
           [] cmd_variant = "run_qemu_win" ->
                RunQemuWinCommand(cmd_in.image_format, cmd_in.compress)
           [] cmd_variant \in {"create_disk_image", "create_disk_image_sparse"} ->
                SparseCommand(cmd_in.image_format, cmd_in.compress)
           [] cmd_variant = "convert_image_format" ->
                ConvertCommand(cmd_in.image_format, cmd_in.compress)
    /\ UNCHANGED <<cmd_variant, cmd_in, cmdOthers>>

\* the caller takes the result; the next call may have other arguments
CmdReturn ==
    /\ cmd_pc = "built"
    /\ cmd_pc' = "idle"
    /\ cmd_line' = << >>
    /\ \E f \in ImageFormats, c \in BOOLEAN :
         cmd_in' = [cmd_in EXCEPT !.image_format = f, !.compress = c]
    /\ UNCHANGED <<cmd_variant, cmdOthers>>

\* sparse and the platform are arguments of create_image only; run_qemu_win
\* and the physical drive branch run on Windows
InitCommand ==
    /\ cmd_variant \in CmdVariants
    /\ cmd_in \in [image_format : ImageFormats, compress : BOOLEAN,
                   sparse : BOOLEAN, win : BOOLEAN]
    /\ cmd_variant # "create_image" => (cmd_in.sparse /\ cmd_in.win)
    /\ cmd_pc = "idle"
    /\ cmd_line = << >>
    /\ IdleFs
    /\ IdleLocator
    /\ IdleResolver
    /\ IdleRunner
    /\ IdleProgress
    /\ IdleCopy
    /\ IdleArchive
    /\ IdleJob
    /\ IdleImage
    /\ IdleThread
    /\ IdleInstaller
    /\ IdleZip

NextCommand ==
    \/ CmdBuild
    \/ CmdReturn

SpecCommand == InitCommand /\ [][NextCommand]_vars

\* C35: the convert command line holds the compression flag -c if and only
\* if compression is requested and the output format is qcow2 or vmdk; for
\* every other format the flag is absent even when compression is requested.
C35_CompressionFlag ==
    (cmd_pc = "built" /\ cmd_line # << >>) =>
        (("-c" \in Range(cmd_line)) <=>
            (cmd_in.compress /\ cmd_in.image_format \in {"qcow2", "vmdk"}))

\* compression was asked for a format without inline compression and the
\* command was built without the flag
C35_Witness ==
    /\ cmd_pc = "built"
    /\ cmd_variant = "create_image"
    /\ cmd_in.compress
    /\ cmd_in.image_format = "vhd"
    /\ "-O" \in Range(cmd_line)
    /\ "-c" \notin Range(cmd_line)

\* the value that follows -O in a command
OutputFormatOf(line) ==
    LET i == CHOOSE j \in 1..Len(line) : line[j] = "-O" IN line[i + 1]

\* C40: for every supported image format the value given to -O is an output
\* format name of qemu-img: img and iso are mapped to raw and the other
\* formats pass through, on every path that builds a convert command.
C40_OutputFormatMapped ==
    (cmd_pc = "built" /\ cmd_line # << >>) =>
        OutputFormatOf(cmd_line) =
            (IF cmd_in.image_format \in {"img", "iso"} THEN "raw"
             ELSE cmd_in.image_format)

\* what the code does ensure: every builder but create_image maps img and
\* iso to raw
OutputFormatMappedOutsideManager ==
    (cmd_pc = "built" /\ cmd_line # << >> /\ cmd_variant # "create_image") =>
        OutputFormatOf(cmd_line) =
            (IF cmd_in.image_format \in {"img", "iso"} THEN "raw"
             ELSE cmd_in.image_format)

====
